---- MODULE Spec2Model ----
(***************************************************************************)
(* Model of the paperless-rag API server (src/rag-api/app): the ingestion  *)
(* pipeline of ingest.py, the /ingest and /ask handlers of main.py, the    *)
(* retriever of retriever.py and the prompt builder of llm.py.             *)
(*                                                                         *)
(* Texts are sequences of tokens: one-character words, the blank " " and   *)
(* the bullet U+2022, a character outside the class clean_text keeps.      *)
(* Python Optional values are sequences: None is <<>> and a value v is     *)
(* <<v>>.  Coroutines are split at their awaits: every action runs one     *)
(* coroutine from one await to the next, as the asyncio event loop does.   *)
(*                                                                         *)
(* Spec is the ingestion system (POST /ingest, the background batch, the   *)
(* DMS), FairSpec adds the scheduling of the batch, AskSpec is POST /ask   *)
(* over an ingested collection, ServerSpec is the startup of the server    *)
(* followed by the requests it serves, ReindexSpec runs POST /ingest, the  *)
(* batch and POST /ask side by side, and LibSpec applies chunk_text,       *)
(* hybrid_search, deduplicate_chunks and build_context_prompt on their own *)
(* to arguments drawn in its initial state.                                *)
(***************************************************************************)
EXTENDS Integers, Sequences, FiniteSets, TLC

VARIABLES
    dms,          \* DMS: doc_id -> current version (also its "modified" stamp)
    vector_size,  \* vector size the collection paperless_chunks was created with
    collection,   \* the points of the collection paperless_chunks
    pc,           \* task -> the await the task is suspended at, or "idle"
    cur,          \* task -> arguments of the running ingest_document call
    meta,         \* task -> doc_metadata fetched by the running call
    ops,          \* task -> upstream operations the running call has issued
    batch,        \* locals of the running ingest_all_documents_background
    cancelled,    \* cancellation signal raised for the running batch
    returned,     \* the ingest_document call that returned in the last step, if any
    resp,         \* the HTTP response POST /ingest sent in the last step, if any
    finished,     \* the batch that ended in the last step, if any
    ask,          \* locals of the running ask_question, suspended at the LLM call
    asked,        \* the POST /ask request answered in the last step, if any
    boot,         \* the startup of the server: its position and the steps it ran
    call,         \* a library function applied on its own, and its arguments
    out           \* what that function returned, if it has been applied

-----------------------------------------------------------------------------
(* Bounds and configuration *)

\* settings.CHUNK_TOKENS and settings.CHUNK_OVERLAP, scaled down
CHUNK_TOKENS == 3
CHUNK_OVERLAP == 1
\* page_size of list_documents, scaled down
page_size == 2
\* number of versions a DMS document goes through
MaxVersion == 2
\* embedding_model.get_sentence_embedding_dimension()
Dimension == 2
\* settings.RAG_TOP_K, scaled down
RAG_TOP_K == 2

None == <<>>
Some(v) == <<v>>
Min(a, b) == IF a < b THEN a ELSE b

\* one POST /ingest handler for a single document and one background batch
\* run at a time
Tasks == {"api", "bg"}

-----------------------------------------------------------------------------
(* extractors.py *)

WS == " "

RECURSIVE lstrip(_)
lstrip(s) == IF s # <<>> /\ Head(s) = WS THEN lstrip(Tail(s)) ELSE s

RECURSIVE rstrip(_)
rstrip(s) == IF s # <<>> /\ s[Len(s)] = WS THEN rstrip(SubSeq(s, 1, Len(s) - 1)) ELSE s

\* str.strip()
strip(s) == rstrip(lstrip(s))

\* the bullet U+2022, a character outside the class of line 44
JUNK == "<U+2022>"

\* re.sub(r'\s+', ' ', text)
RECURSIVE collapse(_)
collapse(s) ==
    IF Len(s) < 2 THEN s
    ELSE IF s[1] = WS /\ s[2] = WS THEN collapse(Tail(s))
    ELSE <<s[1]>> \o collapse(Tail(s))

\* re.sub(r'[^\w\s\-.,;:!?()...]', ' ', text), applied after the collapse
replace_artifacts(s) == [k \in 1..Len(s) |-> IF s[k] = JUNK THEN WS ELSE s[k]]

clean_text(text) ==
    IF text = <<>> THEN <<>> ELSE strip(replace_artifacts(collapse(text)))

\* A blob is [ext, magic, parses, pages]: the extension of its filename, its
\* leading bytes, whether the format library can parse it, and the raw text
\* of its pages (one entry for docx and txt).
detect_file_type(blob) ==
    IF blob.ext = ".pdf" THEN "pdf"
    ELSE IF blob.ext = ".docx" THEN "docx"
    ELSE IF blob.ext \in {".txt", ".text"} THEN "txt"
    ELSE IF blob.magic = "%PDF" THEN "pdf"
    ELSE IF blob.magic = "PK-word" THEN "docx"
    ELSE IF blob.magic = "utf8" THEN "txt"
    ELSE "unknown"

\* one (page_num, text) per page with text, pages numbered from 1
RECURSIVE pdf_pages(_, _)
pdf_pages(raw, page_num) ==
    IF raw = <<>> THEN <<>>
    ELSE LET cleaned_text == clean_text(Head(raw))
             rest == pdf_pages(Tail(raw), page_num + 1)
         IN  IF cleaned_text # <<>>
             THEN <<[page |-> Some(page_num), text |-> cleaned_text]>> \o rest
             ELSE rest

extract_pdf_text(blob) == pdf_pages(blob.pages, 1)

extract_single_text(blob) == clean_text(blob.pages[1])

\* a parse failure is caught and yields no pages (lines 219-221)
extract_text_from_file(blob) ==
    LET file_type == detect_file_type(blob)
    IN  IF file_type = "unknown" \/ ~blob.parses THEN <<>>
        ELSE IF file_type = "pdf" THEN extract_pdf_text(blob)
        ELSE LET text == extract_single_text(blob)
             IN  IF text # <<>> THEN <<[page |-> None, text |-> text]>> ELSE <<>>

-----------------------------------------------------------------------------
(* The DMS (paperless-ngx), read-only for the server *)

\* GET /api/documents/?ordering=-created : ids newest first
DmsListing == <<12, 7, 3>>
DmsDocs == {DmsListing[i] : i \in 1..Len(DmsListing)}

\* document 12 is edited over time, the others are not
Versions(d) == IF d = 12 THEN MaxVersion ELSE 1

Blob(d, v) ==
    IF d = 12 THEN
        IF v = 1
        THEN [ext |-> ".pdf", magic |-> "%PDF", parses |-> TRUE,
              pages |-> << <<"a", "b", JUNK, JUNK, JUNK, "c">>, <<WS, WS>>, <<"x", WS, WS, "y">> >>]
        ELSE IF v = 2
        THEN [ext |-> ".pdf", magic |-> "%PDF", parses |-> TRUE,
              pages |-> << <<"a", WS, "z">> >>]
        ELSE [ext |-> ".pdf", magic |-> "%PDF", parses |-> FALSE,
              pages |-> << <<"a">> >>]
    ELSE IF d = 7
    THEN [ext |-> ".pdf", magic |-> "%PDF", parses |-> TRUE,
          pages |-> << <<>>, <<WS>> >>]
    ELSE [ext |-> "", magic |-> "PK-word", parses |-> TRUE,
          pages |-> << <<WS, "A", WS, "z">> >>]

\* GET /api/documents/{id}/
Document(d, v) ==
    [id |-> d,
     title |-> IF d = 12 THEN "Report" ELSE IF d = 7 THEN "Scan" ELSE "Memo",
     file_type |-> IF d = 3 THEN "docx" ELSE "pdf",
     tags |-> IF d = 12 THEN <<"A">> ELSE <<"B">>,
     modified |-> v]

\* list_documents: one request, the first page of the listing
RECURSIVE Matching(_, _)
Matching(ids, updated_after) ==
    IF ids = <<>> THEN <<>>
    ELSE LET rest == Matching(Tail(ids), updated_after)
         IN  IF updated_after = None \/ dms[Head(ids)] > updated_after[1]
             THEN <<Head(ids)>> \o rest ELSE rest

list_documents(updated_after) ==
    LET all == Matching(DmsListing, updated_after)
    IN  SubSeq(all, 1, Min(page_size, Len(all)))

-----------------------------------------------------------------------------
(* ingest.py *)

count_tokens(text) == Len(text)

\* text[i:j] of Python
slice(s, i, j) == SubSeq(s, i + 1, Min(j, Len(s)))

\* chunk_text without the filter of line 78: blank windows are kept
chunk_text_keep_blank(text) ==
    IF strip(text) = <<>> THEN <<>>
    ELSE LET step == CHUNK_TOKENS - CHUNK_OVERLAP
             n == (Len(text) + step - 1) \div step
         IN  [k \in 1..n |->
                strip(slice(text, (k - 1) * step, (k - 1) * step + CHUNK_TOKENS))]

chunk_text(text) ==
    IF strip(text) = <<>> THEN <<>>
    ELSE LET step == CHUNK_TOKENS - CHUNK_OVERLAP
             n == (Len(text) + step - 1) \div step
             chunks == [k \in 1..n |->
                          strip(slice(text, (k - 1) * step, (k - 1) * step + CHUNK_TOKENS))]
         IN  SelectSeq(chunks, LAMBDA chunk : chunk # <<>>)

\* windows cut without the last, shorter one
token_windows_whole(tokens, chunk_tokens, overlap_tokens) ==
    LET step == chunk_tokens - overlap_tokens
        n == IF Len(tokens) < chunk_tokens THEN 0
             ELSE (Len(tokens) - chunk_tokens) \div step + 1
    IN  [k \in 1..n |-> slice(tokens, (k - 1) * step, (k - 1) * step + chunk_tokens)]

\* lines 72-74: tokens[i:i + chunk_tokens] for i in range(0, len(tokens), step)
token_windows(tokens, chunk_tokens, overlap_tokens) ==
    LET step == chunk_tokens - overlap_tokens
        n == (Len(tokens) + step - 1) \div step
    IN  [k \in 1..n |-> slice(tokens, (k - 1) * step, (k - 1) * step + chunk_tokens)]

\* chunk_text called with its parameters (lines 59-78); None takes the
\* setting
chunk_text_with(text, chunk_tokens, overlap_tokens) ==
    LET size == IF chunk_tokens = None THEN CHUNK_TOKENS ELSE chunk_tokens[1]
        overlap == IF overlap_tokens = None THEN CHUNK_OVERLAP ELSE overlap_tokens[1]
        windows == token_windows(text, size, overlap)
        chunks == [k \in 1..Len(windows) |-> strip(windows[k])]
    IN  IF strip(text) = <<>> THEN <<>>
        ELSE SelectSeq(chunks, LAMBDA chunk : chunk # <<>>)

\* embedding_model.encode: one vector of the model's dimension per text
encode(texts) == [k \in 1..Len(texts) |-> [j \in 1..Dimension |-> Len(texts[k])]]

DigitChars == <<"0", "1", "2", "3", "4", "5", "6", "7", "8", "9">>

\* str() of a non-negative int
RECURSIVE str(_)
str(n) == IF n < 10 THEN <<DigitChars[n + 1]>>
          ELSE str(n \div 10) \o <<DigitChars[(n % 10) + 1]>>

\* chunk.get('page', 0) or 0
page_or_0(page) == IF page = None THEN 0 ELSE page[1]

\* a point id without the position of the chunk
point_id_of_page(doc_id, page, i) == str(doc_id) \o <<"_">> \o str(page)

\* f"{doc_id}_{page}_{i}"
point_id(doc_id, page, i) == str(doc_id) \o <<"_">> \o str(page) \o <<"_">> \o str(i)

\* the points built by upsert_chunks_to_qdrant (lines 137-148)
build_points(chunks, vectors) ==
    [k \in 1..Len(chunks) |->
        [id |-> point_id(chunks[k].doc_id, page_or_0(chunks[k].page), k - 1),
         vector |-> vectors[k],
         payload |-> chunks[k]]]

\* qdrant_client.upsert: each point in turn replaces the point of its id
RECURSIVE qdrant_upsert(_, _)
qdrant_upsert(coll, points) ==
    IF points = <<>> THEN coll
    ELSE qdrant_upsert({p \in coll : p.id # Head(points).id} \cup {Head(points)},
                       Tail(points))

\* a delete whose filter matches no point
qdrant_delete_nothing(coll, d) == coll

\* qdrant_client.delete with the filter doc_id = d
qdrant_delete(coll, d) == {p \in coll : p.payload.doc_id # d}

\* a scroll whose filter names another payload key
qdrant_scroll_other_key(coll, d) == {p \in coll : p.payload.token_count = d}

\* a scroll without a filter
qdrant_scroll_unfiltered(coll, d) == coll

\* qdrant_client.scroll with the filter doc_id = d
qdrant_scroll(coll, d) == {p \in coll : p.payload.doc_id = d}

\* the collection rejects vectors of another size
VectorsFit(points) == \A k \in 1..Len(points) : Len(points[k].vector) = vector_size

\* lines 222-242: the chunks of all pages, in emission order
RECURSIVE page_chunks(_, _)
page_chunks(extracted_pages, m) ==
    IF extracted_pages = <<>> THEN <<>>
    ELSE LET page == Head(extracted_pages)
             text_chunks == IF strip(page.text) = <<>> THEN <<>> ELSE chunk_text(page.text)
         IN  [k \in 1..Len(text_chunks) |->
                [text |-> text_chunks[k],
                 doc_id |-> m.id,
                 title |-> m.title,
                 page |-> page.page,
                 file_type |-> m.file_type,
                 tags |-> m.tags,
                 token_count |-> count_tokens(text_chunks[k])]]
             \o page_chunks(Tail(extracted_pages), m)

\* ingest_document without its except block: the exception of an upstream
\* call leaves the function
Result_raise(d, status, n, reason, error) ==
    [doc_id |-> d, status |-> IF status = "error" THEN "raised" ELSE status,
     chunks_created |-> n, reason |-> reason, error |-> error]

\* the result dictionaries of lines 197-203, 214-220, 246-252, 277-283, 287-293
Result(d, status, n, reason, error) ==
    [doc_id |-> d, status |-> status, chunks_created |-> n,
     reason |-> reason, error |-> error]

\* a pass that removes the chunks of a forced reindex as soon as the
\* download has answered, before extraction, chunking and embedding
ingest_after_download_delete_first(d, force_reindex, m, blob, coll, fault) ==
    LET extracted_pages == extract_text_from_file(blob)
        all_chunks == page_chunks(extracted_pages, m)
        embeddings == encode([k \in 1..Len(all_chunks) |-> all_chunks[k].text])
        points == build_points(all_chunks, embeddings)
        deleted == IF force_reindex THEN qdrant_delete(coll, d) ELSE coll
        issued == IF force_reindex THEN {"delete"} ELSE {}
    IN  IF force_reindex /\ fault = "delete"
        THEN [coll |-> coll, ops |-> {"delete"},
              result |-> Result(d, "error", 0, "", "delete")]
        ELSE IF extracted_pages = <<>>
        THEN [coll |-> deleted, ops |-> issued,
              result |-> Result(d, "failed", 0, "no_text_extracted", "")]
        ELSE IF all_chunks = <<>>
        THEN [coll |-> deleted, ops |-> issued,
              result |-> Result(d, "failed", 0, "no_chunks_created", "")]
        ELSE IF fault = "encode"
        THEN [coll |-> deleted, ops |-> issued \cup {"encode"},
              result |-> Result(d, "error", 0, "", "encode")]
        ELSE IF fault = "upsert" \/ ~VectorsFit(points)
        THEN [coll |-> deleted, ops |-> issued \cup {"encode", "upsert"},
              result |-> Result(d, "error", 0, "", "upsert")]
        ELSE [coll |-> qdrant_upsert(deleted, points),
              ops |-> issued \cup {"encode", "upsert"},
              result |-> Result(d, "success", Len(all_chunks), "", "")]

\* ingest_document from the download's answer to its return (lines 207-293);
\* fault names the upstream call that raises, "none" when none does.
\* Gives the collection left behind, the result and the calls issued.
ingest_after_download(d, force_reindex, m, blob, coll, fault) ==
    LET extracted_pages == extract_text_from_file(blob)
        all_chunks == page_chunks(extracted_pages, m)
        embeddings == encode([k \in 1..Len(all_chunks) |-> all_chunks[k].text])
        points == build_points(all_chunks, embeddings)
        deleted == IF force_reindex THEN qdrant_delete(coll, d) ELSE coll
    IN  IF extracted_pages = <<>>
        THEN [coll |-> coll, ops |-> {},
              result |-> Result(d, "failed", 0, "no_text_extracted", "")]
        ELSE IF all_chunks = <<>>
        THEN [coll |-> coll, ops |-> {},
              result |-> Result(d, "failed", 0, "no_chunks_created", "")]
        ELSE IF fault = "encode"
        THEN [coll |-> coll, ops |-> {"encode"},
              result |-> Result(d, "error", 0, "", "encode")]
        ELSE IF force_reindex /\ fault = "delete"
        THEN [coll |-> coll, ops |-> {"encode", "delete"},
              result |-> Result(d, "error", 0, "", "delete")]
        ELSE IF fault = "upsert" \/ ~VectorsFit(points)
        THEN [coll |-> deleted,
              ops |-> {"encode", "upsert"} \cup (IF force_reindex THEN {"delete"} ELSE {}),
              result |-> Result(d, "error", 0, "", "upsert")]
        ELSE [coll |-> qdrant_upsert(deleted, points),
              ops |-> {"encode", "upsert"} \cup (IF force_reindex THEN {"delete"} ELSE {}),
              result |-> Result(d, "success", Len(all_chunks), "", "")]

-----------------------------------------------------------------------------
(* main.py: POST /ingest and the background batch *)

NoBatch ==
    [state |-> "none", force_reindex |-> FALSE, updated_after |-> None,
     documents |-> <<>>, matching |-> {}, calls |-> <<>>,
     processed |-> 0, total_chunks |-> 0]

\* `if request.doc_id:` (line 284)
Truthy(doc_id) == doc_id # None /\ doc_id[1] # 0

\* lines 293-303 and 320-322: the HTTPException(400) raised inside the try
\* block is caught by `except Exception` and re-raised as a 500 whose detail
\* is the text of the first; result.get('error', 'Unknown error') reads a
\* key that only the results with status error carry ("" here when absent).
\* request_doc_id is the doc_id of the request the response answers.
IngestResponse(result) ==
    IF result.status = "success"
    THEN [status |-> 200, documents_processed |-> 1, chunks_created |-> result.chunks_created,
          request_doc_id |-> Some(result.doc_id),
          detail |-> <<"Successfully ingested document ">> \o str(result.doc_id)]
    ELSE [status |-> 500, documents_processed |-> 0, chunks_created |-> 0,
          request_doc_id |-> Some(result.doc_id),
          detail |-> <<"Ingestion error: ", "400", ": ", "Failed to ingest document ">>
                     \o (IF result.doc_id < 0 THEN <<"-">> \o str(0 - result.doc_id)
                         ELSE str(result.doc_id))
                     \o <<": ", IF result.error = "" THEN "Unknown error" ELSE result.error>>]

\* a loop that stops at the first document that is not ingested
BatchAfter_stop_on_failure(result) ==
    IF result.status # "success"
    THEN [batch EXCEPT !.state = "complete"]
    ELSE LET b1 == [batch EXCEPT !.processed = @ + 1,
                                 !.total_chunks = @ + result.chunks_created]
             k == Len(batch.calls)
         IN  IF k < Len(batch.documents)
             THEN [b1 EXCEPT !.calls = Append(@, batch.documents[k + 1])]
             ELSE [b1 EXCEPT !.state = "complete"]

\* lines 353-358 and the next iteration of the loop at line 343
BatchAfter(result) ==
    LET b1 == IF result.status = "success"
              THEN [batch EXCEPT !.processed = @ + 1,
                                 !.total_chunks = @ + result.chunks_created]
              ELSE batch
        k == Len(batch.calls)
    IN  IF k < Len(batch.documents)
        THEN [b1 EXCEPT !.calls = Append(@, batch.documents[k + 1])]
        ELSE [b1 EXCEPT !.state = "complete"]

\* the arguments of an ingest_document call, and whether the collection
\* holds a chunk of the document when the call is made
NewCall(d, force_reindex, coll) ==
    [doc_id |-> d, force_reindex |-> force_reindex,
     held_at_call |-> \E p \in coll : p.payload.doc_id = d]

\* ingest_document returns `result` in task t: the handler answers, the batch
\* goes on to its next document or ends
Return(t, result, issued, coll_after) ==
    /\ returned' = Some([task |-> t,
                         doc_id |-> cur[t][1].doc_id,
                         force_reindex |-> cur[t][1].force_reindex,
                         held_at_call |-> cur[t][1].held_at_call,
                         ops |-> ops[t] \cup issued,
                         result |-> result])
    /\ meta' = [meta EXCEPT ![t] = None]
    /\ ops' = [ops EXCEPT ![t] = {}]
    /\ IF t = "api"
       THEN /\ resp' = Some(IngestResponse(result))
            /\ pc' = [pc EXCEPT ![t] = "idle"]
            /\ cur' = [cur EXCEPT ![t] = None]
            /\ finished' = None
            /\ UNCHANGED <<batch, cancelled>>
       ELSE LET b == BatchAfter(result)
            IN  /\ resp' = None
                /\ IF b.state = "complete"
                   THEN /\ pc' = [pc EXCEPT ![t] = "idle"]
                        /\ cur' = [cur EXCEPT ![t] = None]
                        /\ finished' = Some(b)
                        /\ batch' = NoBatch
                        /\ cancelled' = FALSE
                   ELSE /\ pc' = [pc EXCEPT ![t] = "get_document"]
                        /\ cur' = [cur EXCEPT ![t] =
                                     Some(NewCall(b.calls[Len(b.calls)], b.force_reindex, coll_after))]
                        /\ finished' = None
                        /\ batch' = b
                        /\ UNCHANGED cancelled

\* POST /ingest {doc_id, force_reindex, updated_after} (lines 283-318)
ingest_documents(doc_id, force_reindex, updated_after) ==
    /\ pc["api"] = "idle"
    /\ IF Truthy(doc_id)
       THEN /\ pc' = [pc EXCEPT !["api"] = "get_document"]
            /\ cur' = [cur EXCEPT !["api"] = Some(NewCall(doc_id[1], force_reindex, collection))]
            /\ resp' = None
            /\ UNCHANGED batch
       ELSE /\ pc["bg"] = "idle"
            /\ pc' = [pc EXCEPT !["bg"] = "list_documents"]
            /\ batch' = [NoBatch EXCEPT !.state = "running",
                                        !.force_reindex = force_reindex,
                                        !.updated_after = updated_after]
            /\ resp' = Some([status |-> 200, documents_processed |-> 0, chunks_created |-> 0,
                              request_doc_id |-> doc_id,
                              detail |-> <<"Started background ingestion of documents">>])
            /\ UNCHANGED cur
    /\ returned' = None
    /\ finished' = None
    /\ UNCHANGED <<dms, vector_size, collection, meta, ops, cancelled, ask, asked, boot, call, out>>

\* ingest_all_documents_background, lines 334-343: the listing answers
list_documents_done(ok) ==
    /\ pc["bg"] = "list_documents"
    /\ IF ~ok
       THEN /\ finished' = Some([batch EXCEPT !.state = "failed"])
            /\ batch' = NoBatch
            /\ cancelled' = FALSE
            /\ pc' = [pc EXCEPT !["bg"] = "idle"]
            /\ UNCHANGED cur
       ELSE LET documents == list_documents(batch.updated_after)
                all == Matching(DmsListing, batch.updated_after)
                b == [batch EXCEPT !.documents = documents,
                                   !.matching = {all[i] : i \in 1..Len(all)}]
            IN  IF documents = <<>>
                THEN /\ finished' = Some([b EXCEPT !.state = "complete"])
                     /\ batch' = NoBatch
                     /\ cancelled' = FALSE
                     /\ pc' = [pc EXCEPT !["bg"] = "idle"]
                     /\ UNCHANGED cur
                ELSE /\ batch' = [b EXCEPT !.calls = <<documents[1]>>]
                     /\ pc' = [pc EXCEPT !["bg"] = "get_document"]
                     /\ cur' = [cur EXCEPT !["bg"] =
                                  Some(NewCall(documents[1], batch.force_reindex, collection))]
                     /\ finished' = None
                     /\ UNCHANGED cancelled
    /\ returned' = None
    /\ resp' = None
    /\ UNCHANGED <<dms, vector_size, collection, meta, ops, ask, asked, boot, call, out>>

\* ingest_document, lines 178-206: the metadata request answers; without
\* force_reindex the existence check follows, then the download is requested.
\* ok: the request answered and lines 181-183 read its title, file type and
\* tags without an exception; scroll_ok: the existence scroll answered.
get_document_done(t, ok, scroll_ok) ==
    /\ pc[t] = "get_document"
    /\ LET d == cur[t][1].doc_id
           force_reindex == cur[t][1].force_reindex
       IN  IF ~ok \/ d \notin DmsDocs
           THEN Return(t, Result(d, "error", 0, "", "get_document"), {"get_document"}, collection)
           ELSE IF ~force_reindex /\ ~scroll_ok
           THEN Return(t, Result(d, "error", 0, "", "scroll"), {"get_document", "scroll"}, collection)
           ELSE IF ~force_reindex /\ qdrant_scroll(collection, d) # {}
           THEN Return(t, Result(d, "skipped", 0, "already_exists", ""),
                       {"get_document", "scroll"}, collection)
           ELSE /\ pc' = [pc EXCEPT ![t] = "download_document"]
                /\ meta' = [meta EXCEPT ![t] = Some(Document(d, dms[d]))]
                /\ ops' = [ops EXCEPT ![t] =
                             {"get_document"} \cup (IF force_reindex THEN {} ELSE {"scroll"})]
                /\ returned' = None
                /\ resp' = None
                /\ finished' = None
                /\ UNCHANGED <<cur, batch, cancelled>>
    /\ UNCHANGED <<dms, vector_size, collection, ask, asked, boot, call, out>>

\* a coroutine that is suspended between the delete and the upsert of a
\* forced pass, as it would be with an awaited vector store client
download_document_done_yielding(t, ok, fault) ==
    /\ pc[t] = "download_document"
    /\ LET d == cur[t][1].doc_id
           r == ingest_after_download(d, cur[t][1].force_reindex, meta[t][1],
                                      Blob(d, dms[d]), collection, fault)
       IN  IF ~ok
           THEN /\ Return(t, Result(d, "error", 0, "", "download_document"), {"download_document"}, collection)
                /\ UNCHANGED collection
           ELSE IF "delete" \in r.ops /\ "upsert" \in r.ops /\ "delete" \notin ops[t]
           THEN /\ collection' = qdrant_delete(collection, d)
                /\ ops' = [ops EXCEPT ![t] = @ \cup {"download_document", "encode", "delete"}]
                /\ returned' = None
                /\ resp' = None
                /\ finished' = None
                /\ UNCHANGED <<pc, cur, meta, batch, cancelled>>
           ELSE /\ collection' = r.coll
                /\ Return(t, r.result, {"download_document"} \cup r.ops, r.coll)
    /\ UNCHANGED <<dms, vector_size, ask, asked, boot, call, out>>

\* ingest_document, lines 206-293: the download answers; extraction,
\* chunking, embedding, delete and upsert follow without an await
download_document_done(t, ok, fault) ==
    /\ pc[t] = "download_document"
    /\ LET d == cur[t][1].doc_id
       IN  IF ~ok
           THEN /\ Return(t, Result(d, "error", 0, "", "download_document"), {"download_document"}, collection)
                /\ UNCHANGED collection
           ELSE LET r == ingest_after_download(d, cur[t][1].force_reindex, meta[t][1],
                                               Blob(d, dms[d]), collection, fault)
                IN  /\ collection' = r.coll
                    /\ Return(t, r.result, {"download_document"} \cup r.ops, r.coll)
    /\ UNCHANGED <<dms, vector_size, ask, asked, boot, call, out>>

\* the document is edited in the DMS
Modify(d) ==
    /\ dms[d] < Versions(d)
    /\ dms' = [dms EXCEPT ![d] = @ + 1]
    /\ returned' = None
    /\ resp' = None
    /\ finished' = None
    /\ UNCHANGED <<vector_size, collection, pc, cur, meta, ops, batch, cancelled, ask, asked, boot, call, out>>

\* a cancellation of the running batch is signalled
SignalCancel ==
    /\ batch.state = "running"
    /\ ~cancelled
    /\ cancelled' = TRUE
    /\ returned' = None
    /\ resp' = None
    /\ finished' = None
    /\ UNCHANGED <<dms, vector_size, collection, pc, cur, meta, ops, batch, ask, asked, boot, call, out>>

-----------------------------------------------------------------------------
(* retriever.py *)

ascii_uppercase == <<"A", "B", "C", "D", "E", "F", "G", "H", "I", "J", "K", "L", "M", "N", "O", "P", "Q", "R", "S", "T", "U", "V", "W", "X", "Y", "Z">>
ascii_lowercase == <<"a", "b", "c", "d", "e", "f", "g", "h", "i", "j", "k", "l", "m", "n", "o", "p", "q", "r", "s", "t", "u", "v", "w", "x", "y", "z">>

\* str.lower(), character by character
lower_char(c) ==
    IF \E k \in 1..Len(ascii_uppercase) : ascii_uppercase[k] = c
    THEN ascii_lowercase[CHOOSE k \in 1..Len(ascii_uppercase) : ascii_uppercase[k] = c]
    ELSE c

lower(s) == [k \in 1..Len(s) |-> lower_char(s[k])]

\* score_threshold of search_similar_chunks, in hundredths
score_threshold == 10

\* the embedding model is outside the repository: the cosine similarity of a
\* chunk to the query, in hundredths, is one of these score tables
Embedders == {"near", "far", "mixed"}

score_of(e, p) ==
    IF e = "near" THEN 40 + 10 * Len(p.payload.text) + (IF p.payload.doc_id = 12 THEN 5 ELSE 0)
    ELSE IF e = "far" THEN 5
    ELSE 95 - 30 * Len(p.payload.text)

\* `if filter_tags:` (line 51)
HasTags(filter_tags) == filter_tags # None /\ filter_tags[1] # <<>>

\* a tag condition every point passes
MatchAny_ignored(tags, any) == TRUE

\* FieldCondition(key="tags", match=MatchAny(any=filter_tags))
MatchAny(tags, any) ==
    \E i \in 1..Len(tags), j \in 1..Len(any) : tags[i] = any[j]

\* qdrant_client.search: the hits by decreasing score
RECURSIVE ranked(_, _)
ranked(hits, e) ==
    IF hits = {} THEN <<>>
    ELSE LET best == CHOOSE p \in hits : \A q \in hits : score_of(e, q) <= score_of(e, p)
         IN  <<best>> \o ranked(hits \ {best}, e)

\* lines 42-86, with the score_threshold the caller passes
search_chunks(coll, e, top_k, filter_tags, threshold) ==
    LET hits == {p \in coll :
                    /\ HasTags(filter_tags) => MatchAny(p.payload.tags, filter_tags[1])
                    /\ score_of(e, p) >= threshold}
        search_results == SubSeq(ranked(hits, e), 1, Min(top_k, Cardinality(hits)))
    IN  [k \in 1..Len(search_results) |->
            [text |-> search_results[k].payload.text,
             doc_id |-> search_results[k].payload.doc_id,
             title |-> search_results[k].payload.title,
             page |-> search_results[k].payload.page,
             file_type |-> search_results[k].payload.file_type,
             tags |-> search_results[k].payload.tags,
             score |-> score_of(e, search_results[k]),
             token_count |-> search_results[k].payload.token_count]]

\* search_similar_chunks called without a score_threshold
search_similar_chunks(coll, e, top_k, filter_tags) ==
    search_chunks(coll, e, top_k, filter_tags, score_threshold)

\* A Python value passed as `match`: a match model of qdrant_client or a
\* bare int.  FieldCondition validates its fields: only a match model is
\* accepted, anything else raises (None here).
MatchValue(value) == [model |-> "MatchValue", value |-> value]
BareInt(value) == [model |-> "int", value |-> value]

FieldCondition(key, match) ==
    IF match.model = "MatchValue" THEN Some([key |-> key, value |-> match.value]) ELSE None

\* default of the parameter `limit` of search_by_document_id
scroll_limit == 100

\* qdrant_client.scroll(limit=...): at most `limit` of the matching points
Limited(points, limit) ==
    IF Cardinality(points) <= limit THEN points
    ELSE CHOOSE some \in SUBSET points : Cardinality(some) = limit

\* lines 109-138: the filter is built with match=doc_id, a bare int; an
\* exception is logged and raised again
search_by_document_id(coll, doc_id, limit) ==
    LET condition == FieldCondition("doc_id", BareInt(doc_id))
    IN  IF condition = None
        THEN [raised |-> TRUE, chunks |-> {}]
        ELSE [raised |-> FALSE,
              chunks |-> {[text |-> p.payload.text,
                           doc_id |-> p.payload.doc_id,
                           title |-> p.payload.title,
                           page |-> p.payload.page,
                           file_type |-> p.payload.file_type,
                           tags |-> p.payload.tags,
                           token_count |-> p.payload.token_count] :
                          p \in Limited({q \in coll : q.payload.doc_id = condition[1].value},
                                        limit)}]

\* similarity_threshold of deduplicate_chunks, in hundredths
similarity_threshold == 95

\* set(text.lower().split())
words(text) == {lower_char(text[k]) : k \in {i \in 1..Len(text) : text[i] # WS}}

\* `if top_k is None: top_k = settings.RAG_TOP_K` (lines 39-40, 163-164)
top_k_or_default(top_k) == IF top_k = None THEN RAG_TOP_K ELSE top_k[1]

\* score_threshold=0.1 passed by hybrid_search (line 173), in hundredths
hybrid_score_threshold == 10

\* list.sort(key=..., reverse=True): stable, by decreasing key
RECURSIVE sort_by_key(_)
sort_by_key(results) ==
    IF results = <<>> THEN <<>>
    ELSE LET sorted == sort_by_key(SubSeq(results, 1, Len(results) - 1))
             last == results[Len(results)]
             before == SelectSeq(sorted, LAMBDA r : r.key >= last.key)
             after == SelectSeq(sorted, LAMBDA r : r.key < last.key)
         IN  before \o <<last>> \o after

\* hybrid_search (lines 163-195); keyword_boost is in hundredths.  With n
\* query words, key is the combined score in units of 1/(100 n) hundredths,
\* so that the sort compares exact values; the score returned is rounded
\* down to hundredths.  Without query words line 181 divides by zero for
\* the first result.
hybrid_search(coll, e, query, top_k, filter_tags, keyword_boost) ==
    LET k == top_k_or_default(top_k)
        vector_results == search_chunks(coll, e, k * 2, filter_tags, hybrid_score_threshold)
        query_keywords == words(query)
        n == Cardinality(query_keywords)
    IN  IF vector_results # <<>> /\ n = 0
        THEN [raised |-> TRUE, chunks |-> <<>>]
        ELSE LET rescored ==
                   [i \in 1..Len(vector_results) |->
                      LET result == vector_results[i]
                          overlap == Cardinality(query_keywords \cap words(result.text))
                          key == (100 - keyword_boost) * result.score * n
                                 + keyword_boost * 100 * overlap
                      IN  [text |-> result.text,
                           doc_id |-> result.doc_id,
                           title |-> result.title,
                           page |-> result.page,
                           file_type |-> result.file_type,
                           tags |-> result.tags,
                           score |-> key \div (100 * n),
                           token_count |-> result.token_count,
                           vector_score |-> result.score,
                           keyword_score |-> (100 * overlap) \div n,
                           key |-> key]]
                 sorted == sort_by_key(rescored)
             IN  [raised |-> FALSE, chunks |-> SubSeq(sorted, 1, Min(k, Len(sorted)))]

is_similar(text, existing_text) ==
    LET overlap == Cardinality(words(text) \cap words(existing_text))
        total_words == Cardinality(words(text) \cup words(existing_text))
    IN  total_words > 0 /\ 100 * overlap > similarity_threshold * total_words

\* a loop that puts every kept chunk in front of the kept ones
RECURSIVE dedupe_into_front(_, _)
dedupe_into_front(deduplicated, chunks) ==
    IF chunks = <<>> THEN deduplicated
    ELSE LET chunk == Head(chunks)
             is_duplicate == \E k \in 1..Len(deduplicated) :
                                 is_similar(chunk.text, deduplicated[k].text)
         IN  dedupe_into_front(IF is_duplicate THEN deduplicated ELSE <<chunk>> \o deduplicated,
                               Tail(chunks))

\* a loop that keeps the last of similar chunks in place of the first
RECURSIVE dedupe_into_replace(_, _)
dedupe_into_replace(deduplicated, chunks) ==
    IF chunks = <<>> THEN deduplicated
    ELSE LET chunk == Head(chunks)
         IN  dedupe_into_replace(
                 IF \E k \in 1..Len(deduplicated) : is_similar(chunk.text, deduplicated[k].text)
                 THEN [k \in 1..Len(deduplicated) |->
                          IF is_similar(chunk.text, deduplicated[k].text)
                          THEN chunk ELSE deduplicated[k]]
                 ELSE Append(deduplicated, chunk),
                 Tail(chunks))

\* a loop that compares a chunk with the last kept chunk only
RECURSIVE dedupe_into_adjacent(_, _)
dedupe_into_adjacent(deduplicated, chunks) ==
    IF chunks = <<>> THEN deduplicated
    ELSE LET chunk == Head(chunks)
             is_duplicate == /\ deduplicated # <<>>
                             /\ is_similar(chunk.text, deduplicated[Len(deduplicated)].text)
         IN  dedupe_into_adjacent(IF is_duplicate THEN deduplicated ELSE Append(deduplicated, chunk),
                                  Tail(chunks))

RECURSIVE dedupe_into(_, _)
dedupe_into(deduplicated, chunks) ==
    IF chunks = <<>> THEN deduplicated
    ELSE LET chunk == Head(chunks)
             is_duplicate == \E k \in 1..Len(deduplicated) :
                                 is_similar(chunk.text, deduplicated[k].text)
         IN  dedupe_into(IF is_duplicate THEN deduplicated ELSE Append(deduplicated, chunk),
                         Tail(chunks))

deduplicate_chunks(chunks) ==
    IF Len(chunks) <= 1 THEN chunks ELSE dedupe_into(<<>>, chunks)

-----------------------------------------------------------------------------
(* llm.py *)

\* settings.MAX_SNIPPETS_TOKENS, scaled down
MAX_SNIPPETS_TOKENS == 12

\* history[-12:]
history_window == 12

OPENROUTER_MODEL == "openai/gpt-oss-20b"

CannedAnswer ==
    <<"I couldn't find any relevant information in the documents to answer your question.">>

\* len(text) // 4
estimate_tokens(length) == length \div 4

\* the characters of a token: a text is made of single characters and of
\* the literals of the f-strings of lines 79 and 88, a title stands for its
\* characters
chars(token) ==
    IF token = "\n=== From document: " THEN 20
    ELSE IF token = "Report" THEN 6
    ELSE IF token \in {"Scan", "Memo"} THEN 4
    ELSE IF token \in {"Page ", " ===\n"} THEN 5
    ELSE IF token = ":\n" THEN 2
    ELSE 1

\* len() of a text
RECURSIVE len(_)
len(text) == IF text = <<>> THEN 0 ELSE chars(Head(text)) + len(Tail(text))

\* `if page:` (line 87)
HasPage(page) == page # None /\ page[1] # 0

\* f"Page {page}:\n{text}\n" or f"{text}\n", and its len()
context_entry(chunk) ==
    IF HasPage(chunk.page)
    THEN [text |-> <<"Page ">> \o str(chunk.page[1]) \o <<":\n">> \o chunk.text \o <<"\n">>,
          length |-> 5 + Len(str(chunk.page[1])) + 2 + Len(chunk.text) + 1]
    ELSE [text |-> chunk.text \o <<"\n">>, length |-> Len(chunk.text) + 1]

\* the keys of doc_groups, in insertion order
RECURSIVE doc_groups(_, _)
doc_groups(seen, chunks) ==
    IF chunks = <<>> THEN seen
    ELSE doc_groups(IF \E k \in 1..Len(seen) : seen[k] = Head(chunks).doc_id
                    THEN seen ELSE Append(seen, Head(chunks).doc_id),
                    Tail(chunks))

\* the inner loop of lines 83-99: `break` leaves the chunks of one document
RECURSIVE add_chunks(_, _)
add_chunks(acc, chunks) ==
    IF chunks = <<>> THEN acc
    ELSE LET entry == context_entry(Head(chunks))
             entry_tokens == estimate_tokens(entry.length)
         IN  IF acc.total_tokens + entry_tokens > MAX_SNIPPETS_TOKENS
             THEN acc
             ELSE add_chunks([context_parts |-> Append(acc.context_parts, entry.text),
                              total_tokens |-> acc.total_tokens + entry_tokens,
                              entries |-> acc.entries + 1],
                             Tail(chunks))

\* the outer loop of lines 75-99: a header for every document, then its chunks
RECURSIVE add_documents(_, _, _)
add_documents(acc, doc_ids, chunks) ==
    IF doc_ids = <<>> THEN acc
    ELSE LET doc_chunks == SelectSeq(chunks, LAMBDA chunk : chunk.doc_id = Head(doc_ids))
             doc_header == <<"\n=== From document: ", doc_chunks[1].title, " ===\n">>
         IN  add_documents(add_chunks([acc EXCEPT !.context_parts = Append(@, doc_header)],
                                      doc_chunks),
                           Tail(doc_ids), chunks)

build_context(chunks) ==
    add_documents([context_parts |-> <<>>, total_tokens |-> 0, entries |-> 0],
                  doc_groups(<<>>, chunks), chunks)

\* "\n".join(context_parts)
RECURSIVE join(_)
join(parts) ==
    IF parts = <<>> THEN <<>>
    ELSE IF Len(parts) = 1 THEN parts[1]
    ELSE parts[1] \o <<"\n">> \o join(Tail(parts))

\* a history that is filtered but not bounded to its last entries
trimmed_history_whole(history) ==
    IF history = None \/ history[1] = <<>> THEN <<>>
    ELSE LET kept == SelectSeq(history[1], LAMBDA msg :
                                  msg.role \in {"user", "assistant", "system"} /\ msg.is_str)
         IN  [k \in 1..Len(kept) |-> [role |-> kept[k].role, content |-> kept[k].content]]

\* lines 116-120: the last entries of the history with a valid role and a
\* string content.  A history entry is [role, content, is_str].
trimmed_history(history) ==
    IF history = None \/ history[1] = <<>> THEN <<>>
    ELSE LET h == history[1]
             trimmed == SubSeq(h, IF Len(h) > history_window THEN Len(h) - history_window + 1 ELSE 1,
                               Len(h))
             kept == SelectSeq(trimmed, LAMBDA msg :
                                  msg.role \in {"user", "assistant", "system"} /\ msg.is_str)
         IN  [k \in 1..Len(kept) |-> [role |-> kept[k].role, content |-> kept[k].content]]

build_context_prompt(query, chunks, history) ==
    LET context == join(build_context(chunks).context_parts)
        user_message == <<"Question: ">> \o query \o <<"\n\nContext from documents:\n">>
                        \o context \o <<"\n\nPlease answer the question">>
    IN  <<[role |-> "system", content |-> <<"SYSTEM_PROMPT">>]>>
        \o trimmed_history(history)
        \o <<[role |-> "user", content |-> user_message]>>

\* generate_answer up to its await (lines 207-223): without chunks it returns
\* the canned answer, otherwise it builds the messages and calls OpenRouter
generate_answer(query, chunks, history) ==
    IF chunks = <<>>
    THEN [called |-> FALSE, messages |-> <<>>,
          result |-> [answer |-> CannedAnswer, model |-> OPENROUTER_MODEL]]
    ELSE [called |-> TRUE, messages |-> build_context_prompt(query, chunks, history),
          result |-> [answer |-> <<>>, model |-> OPENROUTER_MODEL]]

\* a call that answers the canned text when the request fails
call_openrouter_fallback(outcome) ==
    IF outcome.kind = "ok"
    THEN Some([answer |-> strip(outcome.content), model |-> OPENROUTER_MODEL])
    ELSE Some([answer |-> CannedAnswer, model |-> OPENROUTER_MODEL])

\* call_openrouter, lines 156-187: the answer of a 2xx response with choices,
\* an exception otherwise (None here)
call_openrouter(outcome) ==
    IF outcome.kind = "ok"
    THEN Some([answer |-> strip(outcome.content), model |-> OPENROUTER_MODEL])
    ELSE None

-----------------------------------------------------------------------------
(* main.py: POST /ask *)

\* lines 197-202
document_keywords ==
    {<<"p", "r", "o", "j", "e", "c", "t">>,
     <<"d", "o", "c", "u", "m", "e", "n", "t">>,
     <<"c", "o", "n", "s", "t", "r", "u", "c", "t", "i", "o", "n">>,
     <<"m", "e", "t", "h", "o", "d", "o", "l", "o", "g", "y">>,
     <<"p", "r", "o", "c", "e", "d", "u", "r", "e">>,
     <<"s", "p", "e", "c", "i", "f", "i", "c", "a", "t", "i", "o", "n">>,
     <<"r", "e", "q", "u", "i", "r", "e", "m", "e", "n", "t">>,
     <<"h", "e", "l", "i", "p", "a", "d">>,
     <<"w", "a", "r", "e", "h", "o", "u", "s", "e">>,
     <<"p", "o", "r", "t">>,
     <<"y", "a", "n", "b", "u">>,
     <<"k", "k", "m", "c">>,
     <<"n", "e", "o", "m">>,
     <<"p", "r", "o", "g", "r", "e", "s", "s">>,
     <<"r", "e", "p", "o", "r", "t">>,
     <<"c", "o", "n", "t", "r", "a", "c", "t">>,
     <<"p", "e", "r", "s", "o", "n", "n", "e", "l">>,
     <<"t", "e", "a", "m">>,
     <<"e", "n", "g", "i", "n", "e", "e", "r">>,
     <<"s", "a", "f", "e", "t", "y">>,
     <<"q", "u", "a", "l", "i", "t", "y">>}

\* Python's `keyword in query_lower`
Contains(s, w) == \E i \in 0..(Len(s) - Len(w)) : SubSeq(s, i + 1, i + Len(w)) = w

needs_documents(query) == \E keyword \in document_keywords : Contains(lower(query), keyword)

\* `top_k * 2 if top_k < 20 else top_k`
double_below == 20
\* citation snippets are cut at 300 characters, scaled down
snippet_chars == 2

\* `request.top_k or settings.RAG_TOP_K` (line 210) and line 212
search_k(request) ==
    LET top_k == IF request.top_k # None /\ request.top_k[1] # 0
                 THEN request.top_k[1] ELSE RAG_TOP_K
    IN  IF top_k < double_below THEN top_k * 2 ELSE top_k

\* paperless.build_document_url
build_document_url(doc_id) == <<"PAPERLESS_BASE_URL", "/documents/">> \o str(doc_id)

\* lines 247-257
Citation(chunk) ==
    [doc_id |-> chunk.doc_id,
     title |-> chunk.title,
     page |-> chunk.page,
     score |-> chunk.score,
     url |-> build_document_url(chunk.doc_id),
     snippet |-> IF Len(chunk.text) > snippet_chars
                 THEN SubSeq(chunk.text, 1, snippet_chars) \o <<"...">>
                 ELSE chunk.text]

AskResponse(answer, citations, query, model_used) ==
    [status |-> 200, answer |-> Some(answer), citations |-> citations,
     query |-> query, model_used |-> model_used]

\* lines 268-270: any exception becomes an HTTPException(500)
AskError == [status |-> 500, answer |-> None, citations |-> <<>>,
             query |-> <<>>, model_used |-> ""]

\* an answer that reports an error when no chunk is found
no_chunks_response_error(request) == AskError

\* lines 231-238: the fixed answer when no chunk is found and general chat
\* is not allowed
no_chunks_response(request) ==
    AskResponse(CannedAnswer, <<>>, request.query, OPENROUTER_MODEL)

NoRequest ==
    [query |-> <<>>, filter_tags |-> None, top_k |-> None, history |-> None,
     allow_general_chat |-> TRUE]

\* search_raised: the vector search raised; llm_outcome: how the LLM call
\* ended, "" when none was made
NoAsk ==
    [pc |-> "idle", request |-> NoRequest, searched |-> FALSE, search_raised |-> FALSE,
     retrieved |-> <<>>, chunks |-> <<>>, messages |-> <<>>, llm_outcome |-> ""]

\* the request that has been answered: what it searched and retrieved, the
\* message lists it sent to the LLM and its response
Answered(a, llm_calls, response) ==
    Some([request |-> a.request, searched |-> a.searched,
          search_raised |-> a.search_raised, retrieved |-> a.retrieved,
          chunks |-> a.chunks, llm_calls |-> llm_calls, llm_outcome |-> a.llm_outcome,
          response |-> response])

\* ask_question from the request to its first await or its response
\* (lines 194-244); e is the embedder's score table, search_ok whether the
\* vector search answers
ask_question(request, e, search_ok) ==
    /\ ask.pc = "idle"
    /\ asked = None
    /\ LET needs == needs_documents(request.query)
           retrieved == IF needs
                        THEN search_similar_chunks(collection, e, search_k(request),
                                                   request.filter_tags)
                        ELSE <<>>
           a == [NoAsk EXCEPT !.request = request, !.searched = needs,
                              !.retrieved = retrieved]
       IN  IF needs /\ ~search_ok
           THEN /\ asked' = Answered([a EXCEPT !.retrieved = <<>>, !.search_raised = TRUE],
                                      <<>>, AskError)
                /\ ask' = NoAsk
           ELSE IF retrieved = <<>> /\ request.allow_general_chat
           THEN LET g == generate_answer(request.query, <<>>, request.history)
                IN  IF g.called
                    THEN /\ ask' = [a EXCEPT !.pc = "call_openrouter", !.messages = g.messages]
                         /\ asked' = None
                    ELSE /\ asked' = Answered(a, <<>>,
                                        AskResponse(g.result.answer, <<>>, request.query,
                                                    g.result.model))
                         /\ ask' = NoAsk
           ELSE IF retrieved = <<>>
           THEN /\ asked' = Answered(a, <<>>, no_chunks_response(request))
                /\ ask' = NoAsk
           ELSE LET chunks == deduplicate_chunks(retrieved)
                    g == generate_answer(request.query, chunks, request.history)
                IN  IF g.called
                    THEN /\ ask' = [a EXCEPT !.pc = "call_openrouter", !.chunks = chunks,
                                             !.messages = g.messages]
                         /\ asked' = None
                    ELSE /\ asked' = Answered([a EXCEPT !.chunks = chunks], <<>>,
                                        AskResponse(g.result.answer,
                                                    [k \in 1..Len(chunks) |-> Citation(chunks[k])],
                                                    request.query, g.result.model))
                         /\ ask' = NoAsk
    /\ UNCHANGED <<dms, vector_size, collection, pc, cur, meta, ops, batch, cancelled,
                   returned, resp, finished, boot, call, out>>

\* ask_question after the LLM call (lines 244-270)
call_openrouter_done(outcome) ==
    /\ ask.pc = "call_openrouter"
    /\ LET llm_result == call_openrouter(outcome)
       IN  asked' = Answered([ask EXCEPT !.llm_outcome = outcome.kind], <<ask.messages>>,
                       IF llm_result = None THEN AskError
                       ELSE AskResponse(llm_result[1].answer,
                                        [k \in 1..Len(ask.chunks) |-> Citation(ask.chunks[k])],
                                        ask.request.query, llm_result[1].model))
    /\ ask' = NoAsk
    /\ UNCHANGED <<dms, vector_size, collection, pc, cur, meta, ops, batch, cancelled,
                   returned, resp, finished, boot, call, out>>

\* the client reads the response
ask_answered ==
    /\ asked # None
    /\ asked' = None
    /\ UNCHANGED <<dms, vector_size, collection, pc, cur, meta, ops, batch, cancelled,
                   returned, resp, finished, ask, boot, call, out>>

-----------------------------------------------------------------------------
(* main.py: startup *)

\* settings = get_settings() at import (line 42), then the body of lifespan
\* (lines 53-68), in program order
startup_steps ==
    <<"get_settings", "QdrantClient", "SentenceTransformer", "ensure_collection",
      "test_paperless_connection", "test_llm_connection">>

\* the process before it loads its configuration; dms_url tells whether
\* httpx can parse the configured PAPERLESS_BASE_URL
NotStarted ==
    [pc |-> "get_settings", steps |-> <<>>, failed_at |-> "", dms_url |-> "valid",
     paperless_ok |-> None, llm_ok |-> None]

\* the server after a startup in which every step and both probes succeeded
Started ==
    [pc |-> "serving", steps |-> startup_steps, failed_at |-> "", dms_url |-> "valid",
     paperless_ok |-> Some(TRUE), llm_ok |-> Some(TRUE)]

\* a startup that logs the exception of a step and goes on
after_step_swallow(step, ok) ==
    IF step = startup_steps[Len(startup_steps)] THEN "serving"
    ELSE startup_steps[1 + CHOOSE k \in 1..Len(startup_steps) : startup_steps[k] = step]

\* where startup goes after a step: to the next step, to the `yield` of line
\* 76 after the last one; an exception imports no module (line 42) or is
\* logged and raised again (lines 72-74), and the application does not start
after_step(step, ok) ==
    IF ~ok THEN "failed"
    ELSE IF step = startup_steps[Len(startup_steps)] THEN "serving"
    ELSE startup_steps[1 + CHOOSE k \in 1..Len(startup_steps) : startup_steps[k] = step]

\* startup runs `step`, which raises unless ok; paperless_ok and llm_ok are
\* what the probes have returned
RunStep(step, ok, paperless_ok, llm_ok) ==
    /\ boot.pc = step
    /\ boot' = [boot EXCEPT !.steps = Append(@, step),
                            !.pc = after_step(step, ok),
                            !.failed_at = IF ok THEN @ ELSE step,
                            !.paperless_ok = paperless_ok,
                            !.llm_ok = llm_ok]

\* line 42
get_settings(ok) ==
    /\ RunStep("get_settings", ok, None, None)
    /\ UNCHANGED <<dms, vector_size, collection, pc, cur, meta, ops, batch, cancelled,
                   returned, resp, finished, ask, asked, call, out>>

\* line 56
connect_qdrant(ok) ==
    /\ RunStep("QdrantClient", ok, None, None)
    /\ UNCHANGED <<dms, vector_size, collection, pc, cur, meta, ops, batch, cancelled,
                   returned, resp, finished, ask, asked, call, out>>

\* line 60
load_embedding_model(ok) ==
    /\ RunStep("SentenceTransformer", ok, None, None)
    /\ UNCHANGED <<dms, vector_size, collection, pc, cur, meta, ops, batch, cancelled,
                   returned, resp, finished, ask, asked, call, out>>

\* lines 63-64 and ingest.ensure_collection: the collection is created with
\* the embedder's dimension when the store has none (vector_size 0), and
\* kept as it is otherwise; ok: neither get_collections nor
\* recreate_collection raises
ensure_collection(ok) ==
    /\ RunStep("ensure_collection", ok, None, None)
    /\ vector_size' = IF ok /\ vector_size = 0 THEN Dimension ELSE vector_size
    /\ UNCHANGED <<dms, collection, pc, cur, meta, ops, batch, cancelled,
                   returned, resp, finished, ask, asked, call, out>>

\* paperless.test_connection: an httpx.HTTPError (no connection, a timeout,
\* a status that is not 2xx) is caught and gives False; the InvalidURL of a
\* base URL that cannot be parsed is no HTTPError and leaves the function
test_connection(answers) ==
    /\ RunStep("test_paperless_connection", boot.dms_url = "valid",
               IF boot.dms_url = "valid" THEN Some(answers) ELSE None, None)
    /\ UNCHANGED <<dms, vector_size, collection, pc, cur, meta, ops, batch, cancelled,
                   returned, resp, finished, ask, asked, call, out>>

\* llm.test_llm_connection: any exception of call_openrouter is caught and
\* gives False
test_llm_connection(outcome) ==
    /\ RunStep("test_llm_connection", TRUE, boot.paperless_ok,
               Some(call_openrouter(outcome) # None))
    /\ UNCHANGED <<dms, vector_size, collection, pc, cur, meta, ops, batch, cancelled,
                   returned, resp, finished, ask, asked, call, out>>

-----------------------------------------------------------------------------
(* The ingestion system *)

\* no library function is applied on its own
NoCall == [fn |-> "none"]

RequestDocIds == {None, Some(0), Some(0 - 1), Some(3), Some(12)}
Faults == {"none", "encode", "delete", "upsert"}

vars == <<dms, vector_size, collection, pc, cur, meta, ops, batch, cancelled,
          returned, resp, finished, ask, asked, boot, call, out>>

\* after startup: ensure_collection has created the collection with the
\* embedder's dimension, or has found an existing one and kept it
Init ==
    /\ dms = [d \in DmsDocs |-> 1]
    /\ vector_size \in {Dimension, Dimension + 1}
    /\ collection = {}
    /\ pc = [t \in Tasks |-> "idle"]
    /\ cur = [t \in Tasks |-> None]
    /\ meta = [t \in Tasks |-> None]
    /\ ops = [t \in Tasks |-> {}]
    /\ batch = NoBatch
    /\ cancelled = FALSE
    /\ returned = None
    /\ resp = None
    /\ finished = None
    /\ ask = NoAsk
    /\ asked = None
    /\ boot = Started
    /\ call = NoCall
    /\ out = None

Next ==
    \/ \E doc_id \in RequestDocIds, force_reindex \in BOOLEAN, updated_after \in {None, Some(1)} :
          ingest_documents(doc_id, force_reindex, updated_after)
    \/ \E ok \in BOOLEAN : list_documents_done(ok)
    \/ \E t \in Tasks, ok \in BOOLEAN, scroll_ok \in BOOLEAN : get_document_done(t, ok, scroll_ok)
    \/ \E t \in Tasks, ok \in BOOLEAN, fault \in Faults : download_document_done(t, ok, fault)
    \/ \E d \in DmsDocs : Modify(d)
    \/ SignalCancel

Spec == Init /\ [][Next]_vars

\* the awaits of the background batch return (every upstream call carries a
\* timeout) and the event loop resumes the coroutine
BackgroundStep ==
    \/ \E ok \in BOOLEAN : list_documents_done(ok)
    \/ \E ok \in BOOLEAN, scroll_ok \in BOOLEAN : get_document_done("bg", ok, scroll_ok)
    \/ \E ok \in BOOLEAN, fault \in Faults : download_document_done("bg", ok, fault)

FairSpec == Spec /\ WF_vars(BackgroundStep)

-----------------------------------------------------------------------------
(* The question answering system: POST /ask over an ingested collection *)

\* the collection after a forced ingest_document of version v of document d
Ingested(coll, d, v) ==
    ingest_after_download(d, TRUE, Document(d, v), Blob(d, v), coll, "none").coll

Queries ==
    {<<"h", "e", "l", "l", "o">>,
     <<"R", "e", "p", "o", "r", "t">>,
     <<"a", "i", "r", "p", "o", "r", "t">>}

FilterTags == {None, Some(<<>>), Some(<<"A">>), Some(<<"Z">>)}

TopKs == {None, Some(0), Some(1), Some(double_below)}

\* a short history with an unknown role and a content that is no string,
\* and one longer than the window
ShortHistory ==
    <<[role |-> "user", content |-> <<"q">>, is_str |-> TRUE],
      [role |-> "tool", content |-> <<"t">>, is_str |-> TRUE],
      [role |-> "assistant", content |-> <<"7">>, is_str |-> FALSE]>>

LongHistory ==
    [k \in 1..(history_window + 1) |->
        [role |-> IF k % 2 = 1 THEN "user" ELSE "assistant",
         content |-> <<"m">> \o str(k), is_str |-> TRUE]]

Histories == {None, Some(ShortHistory), Some(LongHistory)}

Requests ==
    [query : Queries, filter_tags : FilterTags, top_k : TopKs, history : Histories,
     allow_general_chat : BOOLEAN]

LlmOutcomes ==
    {[kind |-> "ok", content |-> <<WS, "Answer", WS>>],
     [kind |-> "http_error", content |-> <<>>],
     [kind |-> "no_choices", content |-> <<>>]}

\* the server is idle over a collection that ingest_document has filled
AskInit ==
    /\ dms \in {[d \in DmsDocs |-> IF d = 12 THEN v ELSE 1] : v \in 1..MaxVersion}
    /\ vector_size = Dimension
    /\ collection \in {{}, Ingested({}, 12, dms[12]), Ingested(Ingested({}, 12, dms[12]), 3, 1)}
    /\ pc = [t \in Tasks |-> "idle"]
    /\ cur = [t \in Tasks |-> None]
    /\ meta = [t \in Tasks |-> None]
    /\ ops = [t \in Tasks |-> {}]
    /\ batch = NoBatch
    /\ cancelled = FALSE
    /\ returned = None
    /\ resp = None
    /\ finished = None
    /\ ask = NoAsk
    /\ asked = None
    /\ boot = Started
    /\ call = NoCall
    /\ out = None

AskNext ==
    \/ \E request \in Requests, e \in Embedders, search_ok \in BOOLEAN :
          ask_question(request, e, search_ok)
    \/ \E outcome \in LlmOutcomes : call_openrouter_done(outcome)
    \/ ask_answered

AskSpec == AskInit /\ [][AskNext]_vars

-----------------------------------------------------------------------------
(* The server from the start of its process: startup, then POST /ingest *)

\* the process starts over a vector store without the collection
\* (vector_size 0) or with the collection an earlier run has left, and with
\* a PAPERLESS_BASE_URL that httpx can parse or cannot
ServerInit ==
    /\ dms = [d \in DmsDocs |-> 1]
    /\ vector_size \in {0, Dimension, Dimension + 1}
    /\ collection = {}
    /\ pc = [t \in Tasks |-> "idle"]
    /\ cur = [t \in Tasks |-> None]
    /\ meta = [t \in Tasks |-> None]
    /\ ops = [t \in Tasks |-> {}]
    /\ batch = NoBatch
    /\ cancelled = FALSE
    /\ returned = None
    /\ resp = None
    /\ finished = None
    /\ ask = NoAsk
    /\ asked = None
    /\ boot \in {[NotStarted EXCEPT !.dms_url = u] : u \in {"valid", "invalid"}}
    /\ call = NoCall
    /\ out = None

\* requests are accepted once lifespan has reached its yield (line 76)
ServerNext ==
    \/ \E ok \in BOOLEAN : get_settings(ok)
    \/ \E ok \in BOOLEAN : connect_qdrant(ok)
    \/ \E ok \in BOOLEAN : load_embedding_model(ok)
    \/ \E ok \in BOOLEAN : ensure_collection(ok)
    \/ \E answers \in BOOLEAN : test_connection(answers)
    \/ \E outcome \in LlmOutcomes : test_llm_connection(outcome)
    \/ /\ boot.pc = "serving"
       /\ \E doc_id \in {Some(3), Some(12)}, force_reindex \in BOOLEAN :
             ingest_documents(doc_id, force_reindex, None)
    \/ /\ boot.pc = "serving"
       /\ \E ok \in BOOLEAN, scroll_ok \in BOOLEAN : get_document_done("api", ok, scroll_ok)
    \/ /\ boot.pc = "serving"
       /\ \E ok \in BOOLEAN, fault \in Faults : download_document_done("api", ok, fault)

ServerSpec == ServerInit /\ [][ServerNext]_vars

-----------------------------------------------------------------------------
(* The tasks of the server side by side: POST /ingest for one document, the *)
(* background batch and POST /ask, over a collection that holds document 12 *)

\* requests whose query holds a trigger keyword, and one without
ReindexRequests ==
    {[NoRequest EXCEPT !.query = query, !.allow_general_chat = FALSE] :
        query \in {<<"R", "e", "p", "o", "r", "t">>, <<"h", "e", "l", "l", "o">>}}

\* the vector store answers every request but a delete may fail; the
\* embedder may fail
ReindexFaults == {"none", "encode", "delete"}

ReindexInit ==
    /\ dms = [d \in DmsDocs |-> 1]
    /\ vector_size = Dimension
    /\ collection = Ingested({}, 12, 1)
    /\ pc = [t \in Tasks |-> "idle"]
    /\ cur = [t \in Tasks |-> None]
    /\ meta = [t \in Tasks |-> None]
    /\ ops = [t \in Tasks |-> {}]
    /\ batch = NoBatch
    /\ cancelled = FALSE
    /\ returned = None
    /\ resp = None
    /\ finished = None
    /\ ask = NoAsk
    /\ asked = None
    /\ boot = Started
    /\ call = NoCall
    /\ out = None

ReindexNext ==
    \/ \E doc_id \in {None, Some(12)}, force_reindex \in BOOLEAN :
          ingest_documents(doc_id, force_reindex, None)
    \/ \E ok \in BOOLEAN : list_documents_done(ok)
    \/ \E t \in Tasks, ok \in BOOLEAN, scroll_ok \in BOOLEAN : get_document_done(t, ok, scroll_ok)
    \/ \E t \in Tasks, ok \in BOOLEAN, fault \in ReindexFaults :
          download_document_done(t, ok, fault)
    \/ Modify(12)
    \/ \E request \in ReindexRequests : ask_question(request, "near", TRUE)
    \/ \E outcome \in LlmOutcomes : call_openrouter_done(outcome)
    \/ ask_answered

ReindexSpec == ReindexInit /\ [][ReindexNext]_vars

-----------------------------------------------------------------------------
(* The functions of ingest.py, retriever.py and llm.py applied on their own *)

\* longest text given to the chunker, largest chunk_tokens, longest list of
\* chunks
MaxText == 5
MaxChunkTokens == 3
MaxChunks == 3

Texts == UNION {[1..n -> {"a", "b", WS}] : n \in 0..MaxText}

\* chunk_tokens > overlap_tokens >= 0, or both left to the settings
ChunkSizes ==
    {<<None, None>>}
    \cup {<<Some(size[1]), Some(size[2])>> :
            size \in {x \in (1..MaxChunkTokens) \X (0..MaxChunkTokens) : x[2] < x[1]}}

ChunkTextCalls ==
    {[fn |-> "chunk_text", text |-> text, chunk_tokens |-> size[1], overlap_tokens |-> size[2]] :
        text \in Texts, size \in ChunkSizes}

\* a text whose entry takes all the budget of the context but two tokens
LongText == [k \in 1..(4 * (MAX_SNIPPETS_TOKENS - 2)) |-> "a"]

\* chunks as the retriever returns them: of the pdf 12 (with a page) and of
\* the docx 3 (without)
LibChunks ==
    {[text |-> text,
      doc_id |-> d,
      title |-> Document(d, 1).title,
      page |-> IF d = 12 THEN Some(1) ELSE None,
      file_type |-> Document(d, 1).file_type,
      tags |-> Document(d, 1).tags,
      score |-> 50,
      token_count |-> Len(text)] :
        text \in {<<"a">>, <<"A">>, <<"b", WS, "a">>, LongText}, d \in {12, 3}}

ChunkLists == UNION {[1..n -> LibChunks] : n \in 0..MaxChunks}

ChunkListCalls ==
    {[fn |-> fn, chunks |-> chunks] :
        fn \in {"deduplicate_chunks", "build_context_prompt"}, chunks \in ChunkLists}

HybridCalls ==
    [fn : {"hybrid_search"},
     e : Embedders,
     query : {<<>>, <<WS>>, <<"y">>, <<"Z", WS, "a">>},
     top_k : {None, Some(0), Some(1), Some(2)},
     filter_tags : FilterTags,
     keyword_boost : {0, 30}]

\* one function is about to be applied to arguments drawn from these sets;
\* hybrid_search reads a collection that ingest_document has filled
LibInit ==
    /\ dms = [d \in DmsDocs |-> 1]
    /\ vector_size = Dimension
    /\ \/ /\ call \in ChunkTextCalls \cup ChunkListCalls
          /\ collection = {}
       \/ /\ call \in HybridCalls
          /\ collection \in {{}, Ingested({}, 12, 1),
                              Ingested(Ingested({}, 12, MaxVersion), 3, 1)}
    /\ pc = [t \in Tasks |-> "idle"]
    /\ cur = [t \in Tasks |-> None]
    /\ meta = [t \in Tasks |-> None]
    /\ ops = [t \in Tasks |-> {}]
    /\ batch = NoBatch
    /\ cancelled = FALSE
    /\ returned = None
    /\ resp = None
    /\ finished = None
    /\ ask = NoAsk
    /\ asked = None
    /\ boot = Started
    /\ out = None

call_chunk_text ==
    /\ call.fn = "chunk_text"
    /\ out = None
    /\ out' = Some(chunk_text_with(call.text, call.chunk_tokens, call.overlap_tokens))
    /\ UNCHANGED <<dms, vector_size, collection, pc, cur, meta, ops, batch, cancelled,
                   returned, resp, finished, ask, asked, boot, call>>

call_deduplicate_chunks ==
    /\ call.fn = "deduplicate_chunks"
    /\ out = None
    /\ out' = Some(deduplicate_chunks(call.chunks))
    /\ UNCHANGED <<dms, vector_size, collection, pc, cur, meta, ops, batch, cancelled,
                   returned, resp, finished, ask, asked, boot, call>>

call_build_context_prompt ==
    /\ call.fn = "build_context_prompt"
    /\ out = None
    /\ out' = Some(build_context_prompt(<<"q">>, call.chunks, None))
    /\ UNCHANGED <<dms, vector_size, collection, pc, cur, meta, ops, batch, cancelled,
                   returned, resp, finished, ask, asked, boot, call>>

call_hybrid_search ==
    /\ call.fn = "hybrid_search"
    /\ out = None
    /\ out' = Some(hybrid_search(collection, call.e, call.query, call.top_k,
                                 call.filter_tags, call.keyword_boost))
    /\ UNCHANGED <<dms, vector_size, collection, pc, cur, meta, ops, batch, cancelled,
                   returned, resp, finished, ask, asked, boot, call>>

LibNext ==
    \/ call_chunk_text
    \/ call_deduplicate_chunks
    \/ call_build_context_prompt
    \/ call_hybrid_search

LibSpec == LibInit /\ [][LibNext]_vars

-----------------------------------------------------------------------------
(* Properties of the ingestion system *)

\* the chunks the collection holds for document d
ChunksOf(d) == {p \in collection : p.payload.doc_id = d}

\* the call that returned in the last step
Ret == returned[1]

\* task t takes the step
StepOf(t) ==
    \/ returned' # None /\ returned'[1].task = t
    \/ pc'[t] # pc[t]

IsPrefix(s, t) == Len(s) <= Len(t) /\ \A i \in 1..Len(s) : s[i] = t[i]

\* the id, text, doc_id and page of a point
Core(p) == [id |-> p.id, text |-> p.payload.text,
            doc_id |-> p.payload.doc_id, page |-> p.payload.page]

\* the points one pass over the current version of document d produces
PassPoints(d) ==
    LET chunks == page_chunks(extract_text_from_file(Blob(d, dms[d])), Document(d, dms[d]))
        points == build_points(chunks, encode([k \in 1..Len(chunks) |-> chunks[k].text]))
    IN  {Core(points[k]) : k \in 1..Len(points)}

\* a point id read back: its "_"-separated decimal fields
RECURSIVE SplitId(_, _)
SplitId(s, acc) ==
    IF s = <<>> THEN <<acc>>
    ELSE IF Head(s) = "_" THEN <<acc>> \o SplitId(Tail(s), <<>>)
    ELSE SplitId(Tail(s), Append(acc, Head(s)))

DigitValue(c) == CHOOSE k \in 0..9 : DigitChars[k + 1] = c

RECURSIVE ParseInt(_)
ParseInt(s) ==
    IF s = <<>> THEN 0
    ELSE 10 * ParseInt(SubSeq(s, 1, Len(s) - 1)) + DigitValue(s[Len(s)])

IdFields(id) == LET parts == SplitId(id, <<>>) IN [k \in 1..Len(parts) |-> ParseInt(parts[k])]

\* C1 as claimed: a call without force_reindex made while the collection
\* holds a chunk of the document returns skipped/already_exists with no
\* chunks created and issues no download, delete or upsert.
C1_SkippedWhenHeldAtCall ==
    (returned # None /\ ~Ret.force_reindex /\ Ret.held_at_call)
    => /\ Ret.result.status = "skipped"
       /\ Ret.result.reason = "already_exists"
       /\ Ret.result.chunks_created = 0
       /\ Ret.ops \cap {"download_document", "delete", "upsert"} = {}

\* C1 amended: a call without force_reindex whose metadata request answers
\* while the collection holds a chunk of the document returns in that step,
\* with skipped/already_exists and no chunks created, or with status error
\* when the metadata request or the existence scroll failed; either way it
\* has issued no download, embedding, delete or upsert and the collection is
\* unchanged.
C1_SkipAtExistenceCheck ==
    [][\A t \in Tasks :
         (/\ pc[t] = "get_document"
          /\ ~cur[t][1].force_reindex
          /\ ChunksOf(cur[t][1].doc_id) # {}
          /\ StepOf(t))
         => /\ returned' # None
            /\ returned'[1].task = t
            /\ returned'[1].doc_id = cur[t][1].doc_id
            /\ LET r == returned'[1].result
               IN  /\ r.chunks_created = 0
                   /\ \/ r.status = "skipped" /\ r.reason = "already_exists"
                      \/ r.status = "error" /\ r.error \in {"get_document", "scroll"}
            /\ returned'[1].ops \cap {"download_document", "encode", "delete", "upsert"} = {}
            /\ collection' = collection]_vars

C1_Witness ==
    /\ returned # None
    /\ ~Ret.force_reindex
    /\ Ret.result.status = "skipped"
    /\ ChunksOf(Ret.doc_id) # {}

\* C2: after a successful ingest_document(d, force_reindex = true) the
\* chunks of d in the collection are exactly the points of this pass
\* (ids, text, doc_id, page), whatever the collection held before; a second
\* forced pass over the unchanged document leaves them unchanged.
C2_ForcedPassExact ==
    (returned # None /\ Ret.force_reindex /\ Ret.result.status = "success")
    => /\ {Core(p) : p \in ChunksOf(Ret.doc_id)} = PassPoints(Ret.doc_id)
       /\ Cardinality(ChunksOf(Ret.doc_id)) = Ret.result.chunks_created

C2_SecondPassUnchanged ==
    [][\A d \in DmsDocs :
         (/\ returned' # None
          /\ returned'[1].doc_id = d
          /\ returned'[1].force_reindex
          /\ returned'[1].result.status = "success"
          /\ {Core(p) : p \in ChunksOf(d)} = PassPoints(d))
         => {Core(p) : p \in ChunksOf(d)'} = {Core(p) : p \in ChunksOf(d)}]_vars

\* C2: a successful forced pass leaves exactly its own points for the
\* document, and a further forced pass over the unchanged document leaves
\* them as they are.
C2_ReindexIdempotent == []C2_ForcedPassExact /\ C2_SecondPassUnchanged

\* a forced pass over version 2 of document 12 made while the collection
\* held chunks of it
C2_Witness ==
    /\ returned # None
    /\ Ret.force_reindex
    /\ Ret.result.status = "success"
    /\ Ret.held_at_call
    /\ Ret.doc_id = 12
    /\ dms[12] = 2

\* C3: a point id is made of (doc_id, page or 0, position of the chunk in
\* the document's emission order): read back, every stored id gives the
\* doc_id and page of its payload, so chunks of different documents never
\* share an id; the ids of one pass are pairwise distinct and number the
\* chunks 0..n-1, the same on every pass.
C3_PointIds ==
    /\ \A p \in collection :
          /\ Len(IdFields(p.id)) = 3
          /\ IdFields(p.id)[1] = p.payload.doc_id
          /\ IdFields(p.id)[2] = (IF p.payload.page = None THEN 0 ELSE p.payload.page[1])
    /\ \A p, q \in collection : p.id = q.id => p = q
    /\ (returned # None /\ Ret.result.status = "success")
       => LET n == Ret.result.chunks_created
              positions == {IdFields(p.id)[3] : p \in ChunksOf(Ret.doc_id)}
          IN  /\ 0..(n - 1) \subseteq positions
              /\ Cardinality(ChunksOf(Ret.doc_id)) >= n
              /\ Ret.force_reindex => positions = 0..(n - 1)

\* chunks of two documents are stored and a pass of several chunks returned
C3_Witness ==
    /\ returned # None
    /\ Ret.result.status = "success"
    /\ Ret.result.chunks_created > 1
    /\ ChunksOf(3) # {}
    /\ ChunksOf(12) # {}

\* C4: every stored chunk has nonempty text, a vector of the collection's
\* vector size and doc_id > 0.
C4_StoredChunksValid ==
    \A p \in collection :
        /\ p.payload.text # <<>>
        /\ Len(p.vector) = vector_size
        /\ p.payload.doc_id > 0

\* version 1 of document 12, whose second window is blank, is stored
C4_Witness ==
    /\ returned # None
    /\ Ret.result.status = "success"
    /\ Ret.doc_id = 12
    /\ dms[12] = 1
    /\ Cardinality(ChunksOf(12)) = 4

\* C5 as claimed: after ingest_document returned success for a document, the
\* lookup of the collection by its doc_id (search_by_document_id) returns at
\* least one chunk and every chunk it returns has that doc_id.
C5_LookupFindsDocument ==
    (returned # None /\ Ret.result.status = "success")
    => LET found == search_by_document_id(collection, Ret.doc_id, scroll_limit)
       IN  /\ ~found.raised
           /\ found.chunks # {}
           /\ \A chunk \in found.chunks : chunk.doc_id = Ret.doc_id

\* C6: when the delete of a forced pass succeeds and its upsert fails, the
\* call returns error with no chunks created and the collection holds no
\* chunk of the document; a call without force_reindex that finds no chunk
\* of its document is never skipped: it goes on to the download unless the
\* metadata request or the scroll fails.
C6_DeletePersists ==
    (returned # None /\ Ret.force_reindex /\ "delete" \in Ret.ops
       /\ Ret.result.error = "upsert")
    => /\ Ret.result.status = "error"
       /\ Ret.result.chunks_created = 0
       /\ ChunksOf(Ret.doc_id) = {}

C6_RetryNotSkipped ==
    [][\A t \in Tasks :
         (/\ pc[t] = "get_document"
          /\ ~cur[t][1].force_reindex
          /\ ChunksOf(cur[t][1].doc_id) = {}
          /\ StepOf(t))
         => \/ /\ returned' = None
               /\ pc'[t] = "download_document"
            \/ /\ returned' # None
               /\ returned'[1].result.status = "error"
               /\ returned'[1].result.error \in {"get_document", "scroll"}]_vars

\* C6: a forced pass whose upsert fails after its delete leaves no chunk of
\* the document and returns error, and a later call without force_reindex is
\* not skipped.
C6_LostUpsert == []C6_DeletePersists /\ C6_RetryNotSkipped

\* the upsert of a forced pass failed for a document that had chunks
C6_Witness ==
    /\ returned # None
    /\ Ret.force_reindex
    /\ Ret.held_at_call
    /\ Ret.result.error = "upsert"
    /\ vector_size = Dimension

\* C7: the batch calls ingest_document once for every document of the
\* fetched list, in list order, whatever the earlier results, and ends.
C7_CallsFollowList ==
    /\ batch.state = "running"
       => /\ IsPrefix(batch.calls, batch.documents)
          /\ pc["bg"] # "list_documents"
             => /\ batch.calls # <<>>
                /\ cur["bg"][1].doc_id = batch.calls[Len(batch.calls)]
    /\ (finished # None /\ finished[1].state = "complete")
       => finished[1].calls = finished[1].documents

C7_EveryCallReturns ==
    [][(returned' # None /\ returned'[1].task = "bg")
         => /\ batch.calls # <<>>
            /\ returned'[1].doc_id = batch.calls[Len(batch.calls)]]_vars

\* the awaits a running batch has left: the listing, then two for every
\* document not yet called and those of the running call
Remaining ==
    IF batch.state # "running" THEN 0
    ELSE IF pc["bg"] = "list_documents" THEN 2 * page_size + 3
    ELSE 2 * (Len(batch.documents) - Len(batch.calls))
         + (IF pc["bg"] = "get_document" THEN 2 ELSE 1)

\* every step of the batch ends it or leaves it less to do
C7_BatchAdvances ==
    [][(batch.state = "running" /\ StepOf("bg"))
         => (finished' # None \/ Remaining' < Remaining)]_vars

\* a running batch can always take its next step
C7_NeverBlocked == batch.state = "running" => ENABLED BackgroundStep

\* under fair scheduling of the background task a running batch ends
C7_BatchEnds == (batch.state = "running") ~> (finished # None)

\* C7: the calls of a batch are the documents of its fetched list, one call
\* each, in order, every call returns to the batch, and the batch ends:
\* it is never blocked and each of its steps leaves it less to do.
C7_BatchCallsEachDocumentOnce ==
    /\ []C7_CallsFollowList
    /\ C7_EveryCallReturns
    /\ C7_BatchAdvances
    /\ []C7_NeverBlocked

\* a batch of two documents ends after its last document returned an error
C7_Witness ==
    /\ finished # None
    /\ finished[1].state = "complete"
    /\ Len(finished[1].calls) = 2
    /\ finished[1].processed = 0
    /\ returned # None
    /\ Ret.result.status = "error"

\* C8 as claimed: when the batch is complete every document of the DMS
\* listing (matching updated_after) has had its ingest_document call.
C8_WholeListingIngested ==
    (finished # None /\ finished[1].state = "complete")
    => finished[1].matching \subseteq
          {finished[1].calls[i] : i \in 1..Len(finished[1].calls)}

\* C9 as claimed: once cancellation is signalled the batch starts no
\* ingest_document call for a further document.
C9_NoCallAfterCancel ==
    [][cancelled => Len(batch'.calls) <= Len(batch.calls)]_vars

\* C19 as claimed: the response of POST /ingest for a document that is
\* already indexed, without force_reindex, tells that the document was
\* skipped with reason already_exists and has chunks_created = 0.
C19_SkippedResponse ==
    (/\ resp # None
     /\ returned # None
     /\ Ret.task = "api"
     /\ ~Ret.force_reindex
     /\ Ret.held_at_call
     /\ Ret.result.status = "skipped")
    => /\ resp[1].status = 200
       /\ resp[1].chunks_created = 0
       /\ \E k \in 1..Len(resp[1].detail) : resp[1].detail[k] = Ret.result.reason

-----------------------------------------------------------------------------
(* Properties of the question answering system *)

\* the request answered in the last step
Ans == asked[1]

\* C10 as claimed: an answered request with allow_general_chat whose query
\* holds no trigger keyword has run no retrieval; that request, and one whose
\* retrieval returned zero chunks, has called the LLM exactly once, with the
\* system message, the history and the user message, its answer is the
\* LLM's and it has no citations.
C10_GeneralChatAsksLlm ==
    (/\ asked # None
     /\ Ans.response.status = 200
     /\ Ans.request.allow_general_chat
     /\ ~needs_documents(Ans.request.query) \/ (Ans.searched /\ Ans.retrieved = <<>>))
    => /\ ~needs_documents(Ans.request.query) => ~Ans.searched
       /\ Len(Ans.llm_calls) = 1
       /\ LET messages == Ans.llm_calls[1]
          IN  /\ messages[1].role = "system"
              /\ messages[Len(messages)].role = "user"
              /\ SubSeq(messages, 2, Len(messages) - 1) = trimmed_history(Ans.request.history)
       /\ Ans.response.answer # Some(CannedAnswer)
       /\ Ans.response.citations = <<>>

\* C11: a request that ends with zero retrieved chunks (no search, or a
\* search that returned none) and allow_general_chat false is answered with
\* status 200, the fixed 'no relevant information' answer, no citations and
\* model_used = OPENROUTER_MODEL, and no LLM call is made for it.
C11_CannedWithoutLlm ==
    /\ (asked # None /\ ~Ans.request.allow_general_chat /\ ~Ans.search_raised
           /\ Ans.retrieved = <<>>)
       => /\ Ans.response.status = 200
          /\ Ans.response.answer = Some(CannedAnswer)
          /\ Ans.response.citations = <<>>
          /\ Ans.response.model_used = OPENROUTER_MODEL
          /\ Ans.response.query = Ans.request.query
          /\ Ans.llm_calls = <<>>
          /\ Ans.llm_outcome = ""
    /\ ask.pc = "call_openrouter" => ask.retrieved # <<>>

\* a search that returned no chunk, general chat not allowed
C11_Witness ==
    /\ asked # None
    /\ ~Ans.request.allow_general_chat
    /\ Ans.searched
    /\ ~Ans.search_raised
    /\ Ans.retrieved = <<>>
    /\ collection # {}

\* the citation c is that of the retrieved chunk
Cites(c, chunk) ==
    /\ c.doc_id = chunk.doc_id
    /\ c.page = chunk.page
    /\ c.score = chunk.score

\* the citations are those of distinct retrieved chunks, in retrieval order
RECURSIVE CitedInOrder(_, _)
CitedInOrder(cites, got) ==
    IF cites = <<>> THEN TRUE
    ELSE IF got = <<>> THEN FALSE
    ELSE IF Cites(Head(cites), Head(got)) THEN CitedInOrder(Tail(cites), Tail(got))
    ELSE CitedInOrder(cites, Tail(got))

\* C12: in every AskResponse each citation is that of a chunk the retriever
\* returned in the same request (same doc_id, page and score), no chunk is
\* cited twice, and the citations are in non-increasing score order.
C12_CitationsFromRetrieved ==
    (asked # None /\ Ans.response.status = 200)
    => LET cites == Ans.response.citations
       IN  /\ CitedInOrder(cites, Ans.retrieved)
           /\ Len(cites) <= Len(Ans.retrieved)
           /\ \A i, j \in 1..Len(cites) : i < j => cites[i].score >= cites[j].score

\* two chunks are cited and a retrieved near-duplicate is not
C12_Witness ==
    /\ asked # None
    /\ Ans.response.status = 200
    /\ Len(Ans.response.citations) >= 2
    /\ Len(Ans.response.citations) < Len(Ans.retrieved)

\* C13: when the LLM call of a request fails, the response is a 5xx error
\* and carries neither an answer nor citations.
C13_LlmFailureIs5xx ==
    (asked # None /\ Ans.llm_calls # <<>> /\ Ans.llm_outcome # "ok")
    => /\ Ans.response.status >= 500
       /\ Ans.response.status <= 599
       /\ Ans.response.answer = None
       /\ Ans.response.citations = <<>>

\* the LLM answered an HTTP error to a request with retrieved chunks
C13_Witness ==
    /\ asked # None
    /\ Ans.llm_calls # <<>>
    /\ Ans.llm_outcome = "http_error"
    /\ Ans.chunks # <<>>

-----------------------------------------------------------------------------
(* Properties of the retriever's tag filter *)

\* the tags of a chunk and the filter have a tag in common
Intersects(tags, filter_tags) ==
    {tags[i] : i \in 1..Len(tags)} \cap {filter_tags[j] : j \in 1..Len(filter_tags)} # {}

\* C20: when a request carries a nonempty filter_tags, every chunk its
\* retrieval returned has a tag of the filter, and every citation is that of
\* such a chunk, stored in the collection with those tags.
C20_TagFilter ==
    (asked # None /\ Ans.request.filter_tags # None /\ Ans.request.filter_tags[1] # <<>>)
    => LET filter_tags == Ans.request.filter_tags[1]
       IN  /\ \A k \in 1..Len(Ans.retrieved) : Intersects(Ans.retrieved[k].tags, filter_tags)
           /\ \A k \in 1..Len(Ans.response.citations) :
                 \E p \in collection :
                    /\ p.payload.doc_id = Ans.response.citations[k].doc_id
                    /\ p.payload.page = Ans.response.citations[k].page
                    /\ Intersects(p.payload.tags, filter_tags)
                    /\ \E i \in 1..Len(Ans.retrieved) :
                          /\ Cites(Ans.response.citations[k], Ans.retrieved[i])
                          /\ Ans.retrieved[i].text = p.payload.text

\* a filtered request is answered with citations over a collection that
\* also holds chunks without the tag
C20_Witness ==
    /\ asked # None
    /\ Ans.request.filter_tags = Some(<<"A">>)
    /\ Ans.response.citations # <<>>
    /\ \E p \in collection : ~Intersects(p.payload.tags, <<"A">>)

-----------------------------------------------------------------------------
(* Properties of the functions applied on their own *)

\* the function of the call has returned
Applied(fn) == call.fn = fn /\ out # None

\* the context inside the user message of a prompt
ContextOf(messages, query) ==
    LET user_message == messages[Len(messages)].content
    IN  SubSeq(user_message, Len(query) + 3, Len(user_message) - 1)

\* C14 as claimed: for every list of chunks the token estimate of the
\* context in the prompt, headers and separators included, counted as
\* ceil(length / 4), is at most MAX_SNIPPETS_TOKENS.
C14_ContextWithinBudget ==
    Applied("build_context_prompt")
    => (len(ContextOf(out[1], <<"q">>)) + 3) \div 4 <= MAX_SNIPPETS_TOKENS

RECURSIVE IsSubsequence(_, _)
IsSubsequence(xs, ys) ==
    IF xs = <<>> THEN TRUE
    ELSE IF ys = <<>> THEN FALSE
    ELSE IF Head(xs) = Head(ys) THEN IsSubsequence(Tail(xs), Tail(ys))
    ELSE IsSubsequence(xs, Tail(ys))

\* C15: deduplicate_chunks returns a subsequence of its input that starts
\* with the input's first item, and applied to its own output it returns
\* that output.
C15_DedupStable ==
    Applied("deduplicate_chunks")
    => /\ IsSubsequence(out[1], call.chunks)
       /\ call.chunks # <<>> => (out[1] # <<>> /\ out[1][1] = call.chunks[1])
       /\ deduplicate_chunks(out[1]) = out[1]

\* a chunk between two kept ones is dropped
C15_Witness ==
    /\ Applied("deduplicate_chunks")
    /\ Len(call.chunks) = 3
    /\ out[1] = <<call.chunks[1], call.chunks[3]>>

\* a result of hybrid_search without the keys it adds
Plain(r) ==
    [text |-> r.text, doc_id |-> r.doc_id, title |-> r.title, page |-> r.page,
     file_type |-> r.file_type, tags |-> r.tags, score |-> r.score,
     token_count |-> r.token_count]

\* hybrid_search returned what search_similar_chunks returns for the same
\* query, top_k and filter_tags
SameAsSearch ==
    /\ ~out[1].raised
    /\ [k \in 1..Len(out[1].chunks) |-> Plain(out[1].chunks[k])]
          = search_similar_chunks(collection, call.e, top_k_or_default(call.top_k),
                                  call.filter_tags)

\* C16 as claimed: with keyword_boost = 0, hybrid_search returns the chunks
\* of search_similar_chunks with its default threshold, in the same order
\* and with the same scores, for every query, collection and top_k.
C16_HybridEqualsSearch ==
    (Applied("hybrid_search") /\ call.keyword_boost = 0) => SameAsSearch

\* the same for the queries that hold a word
HybridEqualsSearchGivenWords ==
    (Applied("hybrid_search") /\ call.keyword_boost = 0 /\ words(call.query) # {})
    => SameAsSearch

\* chunk_tokens and overlap_tokens of a chunk_text call
SizeOf(c) == IF c.chunk_tokens = None THEN CHUNK_TOKENS ELSE c.chunk_tokens[1]
OverlapOf(c) == IF c.overlap_tokens = None THEN CHUNK_OVERLAP ELSE c.overlap_tokens[1]

\* the tokens the window at place k of the chunker's grid holds
WindowAt(text, k, size, step) ==
    SubSeq(text, (k - 1) * step + 1, Min((k - 1) * step + size, Len(text)))

\* the windows joined, the overlap with the window before left out
RECURSIVE Reassemble(_, _)
Reassemble(windows, overlap) ==
    IF windows = <<>> THEN <<>>
    ELSE IF Len(windows) = 1 THEN windows[1]
    ELSE LET last == windows[Len(windows)]
         IN  Reassemble(SubSeq(windows, 1, Len(windows) - 1), overlap)
             \o (IF overlap >= Len(last) THEN <<>> ELSE SubSeq(last, overlap + 1, Len(last)))

\* a window without the whitespace at its two ends
Trimmed(w) ==
    LET inked == {i \in 1..Len(w) : w[i] # WS}
    IN  IF inked = {} THEN <<>>
        ELSE SubSeq(w, CHOOSE i \in inked : \A j \in inked : i <= j,
                       CHOOSE i \in inked : \A j \in inked : i >= j)

\* C17 as claimed: the chunks emitted for a text are its windows at
\* positions 0, step, 2*step, ..., of at most chunk_tokens tokens each, and
\* joined with the overlaps removed they give back the token sequence.
C17_ChunksCoverText ==
    Applied("chunk_text")
    => LET size == SizeOf(call)
           overlap == OverlapOf(call)
       IN  /\ \A k \in 1..Len(out[1]) :
                 /\ Len(out[1][k]) <= size
                 /\ out[1][k] = WindowAt(call.text, k, size, size - overlap)
           /\ Reassemble(out[1], overlap) = call.text

\* C17 amended: the windows the chunker cuts start at positions 0, step,
\* 2*step, ..., hold between 1 and chunk_tokens tokens, cover every token
\* position and, joined with the overlaps removed, give back the token
\* sequence; the chunks emitted are these windows without the whitespace at
\* their ends, in order, the windows of whitespace only left out, and none
\* at all for a text of whitespace only.
C17_WindowsCoverText ==
    Applied("chunk_text")
    => LET size == SizeOf(call)
           overlap == OverlapOf(call)
           step == size - overlap
           windows == token_windows(call.text, size, overlap)
           trimmed == [k \in 1..Len(windows) |-> Trimmed(windows[k])]
       IN  /\ \A k \in 1..Len(windows) :
                 /\ windows[k] = WindowAt(call.text, k, size, step)
                 /\ Len(windows[k]) >= 1
                 /\ Len(windows[k]) <= size
           /\ \A i \in 1..Len(call.text) :
                 \E k \in 1..Len(windows) :
                    (k - 1) * step < i /\ i <= (k - 1) * step + Len(windows[k])
           /\ Reassemble(windows, overlap) = call.text
           /\ out[1] = SelectSeq(trimmed, LAMBDA chunk : chunk # <<>>)
           /\ \A k \in 1..Len(out[1]) : IsSubsequence(out[1][k], call.text)

\* overlapping windows, one of whitespace only and one trimmed
C17_Witness ==
    /\ Applied("chunk_text")
    /\ OverlapOf(call) >= 1
    /\ LET windows == token_windows(call.text, SizeOf(call), OverlapOf(call))
       IN  /\ Len(out[1]) >= 2
           /\ Len(out[1]) < Len(windows)
           /\ \E k \in 1..Len(out[1]) : out[1][k] \notin {windows[j] : j \in 1..Len(windows)}

-----------------------------------------------------------------------------
(* Properties of startup *)

\* the steps that ran are the first steps of the startup order, and startup
\* stands at the next one unless it failed or serves
C18_StepsInOrder ==
    /\ IsPrefix(boot.steps, startup_steps)
    /\ boot.pc \notin {"failed", "serving"}
       => /\ Len(boot.steps) < Len(startup_steps)
          /\ boot.pc = startup_steps[Len(boot.steps) + 1]

\* the server serves only after all the steps ran and none of the
\* configuration, the vector store, the embedder and the collection failed
C18_ServesAfterStartup ==
    /\ boot.pc = "serving" => (boot.steps = startup_steps /\ boot.failed_at = "")
    /\ (pc["api"] # "idle" \/ resp # None \/ returned # None \/ collection # {})
       => boot.pc = "serving"

\* a step that fails stops startup for good: no later step runs and no
\* request is handled; startup never fails at the LLM probe, and at the DMS
\* probe only on a configured base URL that cannot be parsed
C18_FailureIsFatal ==
    /\ boot.failed_at # ""
       => /\ boot.pc = "failed"
          /\ boot.steps[Len(boot.steps)] = boot.failed_at
    /\ boot.pc = "failed" => boot.failed_at # ""
    /\ boot.failed_at # "test_llm_connection"
    /\ boot.failed_at = "test_paperless_connection" => boot.dms_url = "invalid"

C18_FailedStays ==
    [][boot.pc = "failed" => UNCHANGED vars]_vars

\* each of the first four steps can fail, the probes cannot: whatever the
\* DMS and the LLM answer, startup goes on to the next step
C18_ProbesAreWarnings ==
    [][/\ (boot.pc = "test_paperless_connection" /\ boot.dms_url = "valid" /\ boot' # boot)
          => boot'.pc = "test_llm_connection"
       /\ (boot.pc = "test_llm_connection" /\ boot' # boot)
          => boot'.pc = "serving"]_vars

C21_CreatedWhenMissing ==
    [][(boot.pc = "ensure_collection" /\ vector_size = 0 /\ boot'.pc = "test_paperless_connection")
         => vector_size' = Dimension]_vars

\* C21 as claimed: once ensure_collection has run without failing the
\* collection has the embedder's dimension: it was created with it when
\* missing, and over a collection stored with another dimension
\* ensure_collection fails, so the server never serves over such a
\* collection.
C21_DimensionVerified ==
    (/\ Len(boot.steps) >= 4
     /\ boot.steps[4] = "ensure_collection"
     /\ boot.failed_at # "ensure_collection")
    => vector_size = Dimension

-----------------------------------------------------------------------------
(* Properties of the tasks side by side *)

\* no task is suspended between the delete and the upsert of its pass: a
\* task that is at an await has issued neither
C22_NotSuspendedInside ==
    \A t \in Tasks : ops[t] \cap {"delete", "upsert"} = {}

\* the delete and the upsert of a forced pass happen in the one step in
\* which the pass returns; every other step, of any task, leaves the
\* collection as it is
C22_OneStep ==
    [][collection' # collection
         => /\ returned' # None
            /\ returned'[1].result.status = "success"
            /\ "upsert" \in returned'[1].ops
            /\ returned'[1].force_reindex => "delete" \in returned'[1].ops
            /\ \A d \in DmsDocs \ {returned'[1].doc_id} :
                  qdrant_scroll(collection', d) = qdrant_scroll(collection, d)
            /\ qdrant_scroll(collection', returned'[1].doc_id) # {}]_vars

\* what POST /ask reads: document 12, indexed from the start, has chunks
\* in every state, and every search retrieves some of them
C22_AskSeesChunks ==
    /\ ChunksOf(12) # {}
    /\ (ask.pc # "idle" /\ ask.searched)
       => \E k \in 1..Len(ask.retrieved) : ask.retrieved[k].doc_id = 12
    /\ (asked # None /\ Ans.searched)
       => \E k \in 1..Len(Ans.retrieved) : Ans.retrieved[k].doc_id = 12

\* C22: in every interleaving of the single-document ingest, the batch and
\* POST /ask, no task takes a step between the delete-by-filter and the
\* upsert of a forced pass, so that as long as no upsert fails no request
\* finds an indexed document without chunks.
C22_ReindexAtomic ==
    /\ []C22_NotSuspendedInside
    /\ C22_OneStep
    /\ []C22_AskSeesChunks

\* a forced pass of the batch replaces the chunks of document 12 by those
\* of its second version while POST /ingest is inside a forced pass of the
\* same document and POST /ask waits for the LLM with chunks of the first
C22_Witness ==
    /\ returned # None
    /\ Ret.task = "bg"
    /\ Ret.doc_id = 12
    /\ Ret.force_reindex
    /\ Ret.held_at_call
    /\ Ret.result.status = "success"
    /\ dms[12] = 2
    /\ pc["api"] = "download_document"
    /\ cur["api"][1].force_reindex
    /\ ask.pc = "call_openrouter"
    /\ \E k \in 1..Len(ask.retrieved) : ask.retrieved[k].text = <<"x", WS, "y">>

\* the points one pass over version v of document d produces
PassPointsOf(d, v) ==
    LET chunks == page_chunks(extract_text_from_file(Blob(d, v)), Document(d, v))
        points == build_points(chunks, encode([k \in 1..Len(chunks) |-> chunks[k].text]))
    IN  {Core(points[k]) : k \in 1..Len(points)}

\* C23 as claimed: when no ingest_document call is running, the chunks the
\* collection holds for a document are those of one single pass over one
\* version of the document (or none), never chunks of two passes.
C23_SinglePass ==
    (\A t \in Tasks : cur[t] = None)
    => \A d \in DmsDocs :
          \/ ChunksOf(d) = {}
          \/ \E v \in 1..Versions(d) : {Core(p) : p \in ChunksOf(d)} = PassPointsOf(d, v)

\* a call that fails or gives up before its embeddings are computed returns
\* in a step that leaves the collection as it is, having issued neither a
\* delete nor an upsert
C24_EarlyFailureKeepsCollection ==
    [][(/\ returned' # None
        /\ \/ returned'[1].result.status = "failed"
           \/ /\ returned'[1].result.status = "error"
              /\ returned'[1].result.error \in {"get_document", "download_document", "encode"})
         => /\ collection' = collection
            /\ returned'[1].ops \cap {"delete", "upsert"} = {}]_vars

\* a delete is issued only by a forced pass whose embeddings are computed
C24_DeleteAfterEmbedding ==
    (returned # None /\ "delete" \in Ret.ops)
    => /\ Ret.force_reindex
       /\ "encode" \in Ret.ops
       /\ Ret.result.error # "encode"
       /\ Ret.result.status # "failed"

\* C24: when ingest_document fails or gives up at the metadata request, the
\* download, the extraction (no text), the chunking (no chunks) or the
\* embedding, the collection is left unchanged: the delete-by-filter of a
\* forced reindex is issued only after the embeddings of all chunks have
\* been computed.
C24_FailureBeforeDelete ==
    /\ C24_EarlyFailureKeepsCollection
    /\ []C24_DeleteAfterEmbedding

\* the embedding of a forced pass failed for a document that has chunks, and
\* they are still there
C24_Witness ==
    /\ returned # None
    /\ Ret.force_reindex
    /\ Ret.held_at_call
    /\ Ret.result.error = "encode"
    /\ ChunksOf(Ret.doc_id) # {}

-----------------------------------------------------------------------------
(* Further properties of the question answering system *)

\* a request whose query holds a trigger keyword is answered after a search
C25_KeywordSearches ==
    (asked # None /\ needs_documents(Ans.request.query)) => Ans.searched

\* C25 as claimed: the vector search is left out only for a request whose
\* query holds no trigger keyword and that allows general chat: every
\* request with allow_general_chat false, and every request whose query
\* holds a trigger keyword, is answered after a search.
C25_SearchUnlessGeneralChat ==
    (asked # None /\ (~Ans.request.allow_general_chat \/ needs_documents(Ans.request.query)))
    => Ans.searched

\* the positions of a history that reach the LLM: those among the last
\* history_window that have a valid role and a string content
Included(h) ==
    {i \in 1..Len(h) :
        /\ i > Len(h) - history_window
        /\ h[i].role \in {"user", "assistant", "system"}
        /\ h[i].is_str}

\* the k-th smallest of a set of positions
Nth(positions, k) == CHOOSE i \in positions : Cardinality({j \in positions : j < i}) = k - 1

\* C27: the message list sent to the LLM is one system message, then the
\* entries of the last 12 positions of the history that have a role among
\* user, assistant, system and a string content, in their order, then one
\* user message; at most 12 history messages are included and none has
\* another role.
C27_MessageList ==
    (asked # None /\ Ans.llm_calls # <<>>)
    => LET messages == Ans.llm_calls[1]
           h == IF Ans.request.history = None THEN <<>> ELSE Ans.request.history[1]
           middle == SubSeq(messages, 2, Len(messages) - 1)
       IN  /\ Len(Ans.llm_calls) = 1
           /\ Len(messages) >= 2
           /\ messages[1] = [role |-> "system", content |-> <<"SYSTEM_PROMPT">>]
           /\ messages[Len(messages)].role = "user"
           /\ messages[Len(messages)].content[1] = "Question: "
           /\ Len(middle) = Cardinality(Included(h))
           /\ Len(middle) <= 12
           /\ \A k \in 1..Len(middle) :
                 /\ middle[k].role = h[Nth(Included(h), k)].role
                 /\ middle[k].content = h[Nth(Included(h), k)].content
                 /\ middle[k].role \in {"user", "assistant", "system"}

\* a history of 13 entries reaches the LLM without its first
C27_Witness ==
    /\ asked # None
    /\ Len(Ans.llm_calls) = 1
    /\ Ans.request.history = Some(LongHistory)
    /\ Len(Ans.llm_calls[1]) = 14
    /\ Ans.llm_calls[1][2].content = LongHistory[2].content

-----------------------------------------------------------------------------
(* Further properties of the functions applied on their own *)

\* the chunks in the order the context takes them: document by document,
\* documents in the order of their first chunk
RECURSIVE ByDocument(_, _)
ByDocument(doc_ids, chunks) ==
    IF doc_ids = <<>> THEN <<>>
    ELSE SelectSeq(chunks, LAMBDA chunk : chunk.doc_id = Head(doc_ids))
         \o ByDocument(Tail(doc_ids), chunks)

\* the parts of a context that ends at the first entry that does not fit
\* the budget: the header of every document begun and the entries accepted
\* until then
RECURSIVE UntilRejected(_, _, _, _)
UntilRejected(parts, total, last_doc, chunks) ==
    IF chunks = <<>> THEN parts
    ELSE LET chunk == Head(chunks)
             entry == context_entry(chunk)
             begun == IF last_doc = Some(chunk.doc_id) THEN parts
                      ELSE Append(parts, <<"\n=== From document: ", chunk.title, " ===\n">>)
         IN  IF total + estimate_tokens(entry.length) > MAX_SNIPPETS_TOKENS
             THEN begun
             ELSE UntilRejected(Append(begun, entry.text),
                                total + estimate_tokens(entry.length),
                                Some(chunk.doc_id), Tail(chunks))

\* C26 as claimed: once one chunk entry is rejected because it would exceed
\* the token budget nothing further is appended to the context: no later
\* chunk of the same document, no header and no chunk of a later document.
C26_NothingAfterRejection ==
    Applied("build_context_prompt")
    => ContextOf(out[1], <<"q">>)
       = join(UntilRejected(<<>>, 0, None,
                            ByDocument(doc_groups(<<>>, call.chunks), call.chunks)))

\* the Jaccard overlap of the lowercased, whitespace-split word sets of two
\* chunks is above the threshold
JaccardAbove(chunk, other) ==
    LET a == words(chunk.text)
        b == words(other.text)
    IN  100 * Cardinality(a \cap b) > similarity_threshold * Cardinality(a \cup b)

\* chunks is read along kept, k of whose items are passed: each chunk is the
\* next kept item or has an overlap above the threshold with an item kept
\* before it
RECURSIVE DroppedAreDuplicates(_, _, _)
DroppedAreDuplicates(chunks, kept, k) ==
    IF chunks = <<>> THEN k = Len(kept)
    ELSE IF /\ k < Len(kept)
            /\ kept[k + 1] = Head(chunks)
            /\ \A j \in 1..k : ~JaccardAbove(Head(chunks), kept[j])
    THEN DroppedAreDuplicates(Tail(chunks), kept, k + 1)
    ELSE /\ \E j \in 1..k : JaccardAbove(Head(chunks), kept[j])
         /\ DroppedAreDuplicates(Tail(chunks), kept, k)

\* C28: in the output of deduplicate_chunks every two kept chunks have a
\* Jaccard overlap of their lowercased whitespace-split word sets of at most
\* the threshold, and every dropped chunk has an overlap above the threshold
\* with a chunk kept before it.
C28_KeptApartDroppedClose ==
    Applied("deduplicate_chunks")
    => /\ \A i, j \in 1..Len(out[1]) : i < j => ~JaccardAbove(out[1][i], out[1][j])
       /\ DroppedAreDuplicates(call.chunks, out[1], 0)

\* the third chunk is dropped for its overlap with the first, having none
\* above the threshold with the second
C28_Witness ==
    /\ Applied("deduplicate_chunks")
    /\ Len(call.chunks) = 3
    /\ out[1] = <<call.chunks[1], call.chunks[2]>>
    /\ call.chunks[3] # call.chunks[1]
    /\ JaccardAbove(call.chunks[3], call.chunks[1])
    /\ ~JaccardAbove(call.chunks[3], call.chunks[2])

-----------------------------------------------------------------------------
(* Further properties of the ingestion system *)

\* the response to a request with a doc_id is sent when ingest_document has
\* returned for that document, with documents_processed = 1 and the chunks
\* of the result on success; the response to a request without doc_id is
\* sent at once with documents_processed = 0 and chunks_created = 0
C29_ResponseOfRequest ==
    resp # None
    => IF resp[1].request_doc_id # None
       THEN /\ returned # None
            /\ Ret.task = "api"
            /\ Ret.doc_id = resp[1].request_doc_id[1]
            /\ Ret.result.status = "success"
               => /\ resp[1].status = 200
                  /\ resp[1].documents_processed = 1
                  /\ resp[1].chunks_created = Ret.result.chunks_created
       ELSE /\ returned = None
            /\ resp[1].status = 200
            /\ resp[1].documents_processed = 0
            /\ resp[1].chunks_created = 0

\* only a request without doc_id starts a background batch
C29_BatchOnlyWithoutDocId ==
    [][(batch.state = "none" /\ batch'.state = "running")
         => (resp' # None /\ resp'[1].request_doc_id = None)]_vars

\* C29 as claimed: POST /ingest with doc_id set to any integer, 0 included,
\* ingests that one document synchronously, starts no background batch and
\* on success returns documents_processed = 1 with the chunks_created of
\* the result; only a request without doc_id starts a background batch and
\* returns at once with documents_processed = 0 and chunks_created = 0.
C29_SingleOrBatch == []C29_ResponseOfRequest /\ C29_BatchOnlyWithoutDocId

\* the same for every doc_id but 0
C29_SingleOrBatchNonZero ==
    /\ [](resp # None /\ resp[1].request_doc_id # Some(0) => C29_ResponseOfRequest)
    /\ [][(batch.state = "none" /\ batch'.state = "running")
            => (resp' # None /\ resp'[1].request_doc_id \in {None, Some(0)})]_vars

\* what ingest_document returns
C30_ResultShape ==
    returned # None
    => /\ Ret.result.status \in {"success", "skipped", "failed", "error"}
       /\ Ret.result.chunks_created > 0 <=> Ret.result.status = "success"
       /\ Ret.result.doc_id = Ret.doc_id

\* a call suspended at an await holds what its next step reads: its
\* arguments and, once the metadata request has answered, the metadata
C30_CallInProgress ==
    \A t \in Tasks :
       /\ pc[t] \in {"get_document", "download_document"} <=> cur[t] # None
       /\ pc[t] = "download_document" <=> meta[t] # None

\* whatever the upstream calls answer, the step a call takes from an await
\* ends in its next await or in its return to the caller
C30_StepReturnsOrGoesOn ==
    [][\A t \in Tasks :
         (pc[t] \in {"get_document", "download_document"} /\ StepOf(t))
         => \/ returned' # None /\ returned'[1].task = t
            \/ pc[t] = "get_document" /\ pc'[t] = "download_document" /\ returned' = None]_vars

\* C30: ingest_document never raises: for every outcome of the DMS, the
\* extractor, the embedder and the vector store it returns a result whose
\* status is success, skipped, failed or error, with chunks_created > 0
\* exactly when the status is success.
C30_AlwaysAResult ==
    /\ []C30_ResultShape
    /\ []C30_CallInProgress
    /\ C30_StepReturnsOrGoesOn

\* the batch's call returns error after the store rejected its vectors
C30_Witness ==
    /\ returned # None
    /\ Ret.task = "bg"
    /\ Ret.result.status = "error"
    /\ Ret.result.error = "upsert"
    /\ vector_size # Dimension

====
